---------------------------- MODULE Spec2Model ----------------------------
(***************************************************************************)
(* A model of the generic containers of the mvn framework:                 *)
(*   - the separate-chaining hash map   (source/mvn-hashmap.c)             *)
(*   - the dynamic array list           (source/mvn-list.c)                *)
(* Each public function is one operator that computes the function's       *)
(* result and the structure it leaves, and one action that applies it to   *)
(* the instance held in the state.  Allocation failures are inputs of the  *)
(* actions: every call may be told which of its allocations fails.         *)
(***************************************************************************)
EXTENDS Integers, Sequences, FiniteSets, TLC

(***************************************************************************)
(* Bounds of the exploration.                                              *)
(***************************************************************************)
\* number of distinct keys the free exploration of the map draws from
NumKeys == 3
MaxCount == 3
\* values are 1..MaxVal (one value blob of item_size bytes each)
MaxVal == 2
\* number of keys the fill script inserts ("key0", "key1", ...)
FillCount == 20
\* the longest list of the free exploration
MaxLen == 3
\* the longest array handed to mvn_list_push_batch
MaxBatch == 2
\* the longest array handed to mvn_list_push_batch where a batch may take the
\* list past MaxLen
LongBatch == 3
\* the number of sets and deletes of the free run on the open-addressing map
PairCalls == 4
\* the number of values the push/pop script pushes
StackCount == 9
\* the number of calls made on a clone and its source while the clone is held
CloneSteps == 2

(***************************************************************************)
(* Program constants.                                                      *)
(***************************************************************************)
MVN_HMAP_DEFAULT_CAPACITY == 16
MVN_HMAP_GROWTH_FACTOR == 2
\* MVN_HMAP_LOAD_FACTOR is 0.75 = LoadNum / LoadDen, exact in a double
LoadNum == 3
LoadDen == 4
FNV_PRIME == 16777619
\* 2166136261 = 0x811C9DC5 as 16-bit limbs, least significant first
FNV_OFFSET_BASIS == <<40389, 33052, 0, 0>>
\* sizeof(int): the item size the tests use
ItemSize == 4

(***************************************************************************)
(* Representation of C values.                                             *)
(*   a string is the sequence of its bytes (without the terminator);       *)
(*   a NULL string pointer is NULLKEY; a value blob is a number in Vals;   *)
(*   a NULL value pointer is NULLVAL; a NULL map is NullMap.               *)
(***************************************************************************)
NULLKEY == <<-1>>
NULLVAL == -1
Vals == 1..MaxVal

\* "c", "e", "i", "b", "a", "d": the hashes of c, e and i are equal modulo 2,
\* 3 and 6, and modulo 4 c leaves the bucket of e and i
KeyPool == << <<99>>, <<101>>, <<105>>, <<98>>, <<97>>, <<100>> >>
Keys == {KeyPool[i] : i \in 1..NumKeys}

\* snprintf(keys[i], ..., "key%d", i) for 0 <= i < 100
TestKey(i) ==
    <<107, 101, 121>> \o
    (IF i < 10 THEN <<48 + i>> ELSE <<48 + (i \div 10), 48 + (i % 10)>>)
FillKeys == {TestKey(i) : i \in 0..(FillCount - 1)}
\* "a" .. "p", the keys of the runs of the open-addressing map
LetterCount == 16
Letters == [i \in 1..LetterCount |-> <<96 + i>>]
OKeys == {Letters[i] : i \in 1..LetterCount}
AllKeys == Keys \cup FillKeys \cup OKeys

(***************************************************************************)
(* size_t arithmetic.  size_t is 64 bits wide; a size_t hash is kept as    *)
(* four 16-bit limbs, least significant first, so that the products stay   *)
(* within the checker's integers.                                          *)
(***************************************************************************)
LimbBase == 65536

ToLimbs(n) ==
    <<n % LimbBase, (n \div LimbBase) % LimbBase, 0, 0>>

RECURSIVE XorBits(_, _, _)
XorBits(a, b, n) ==
    IF n = 0 THEN 0
    ELSE (((a % 2) + (b % 2)) % 2) + 2 * XorBits(a \div 2, b \div 2, n - 1)

\* hash ^= (unsigned char)c
XorByte(h, c) ==
    [h EXCEPT ![1] = (h[1] \div 256) * 256 + XorBits(h[1] % 256, c, 8)]

\* hash *= p   (mod 2^64)
MulLimbs(h, p) ==
    LET t1 == h[1] * p[1]
        t2 == h[1] * p[2] + h[2] * p[1] + (t1 \div LimbBase)
        t3 == h[1] * p[3] + h[2] * p[2] + h[3] * p[1] + (t2 \div LimbBase)
        t4 == h[1] * p[4] + h[2] * p[3] + h[3] * p[2] + h[4] * p[1]
              + (t3 \div LimbBase)
    IN <<t1 % LimbBase, t2 % LimbBase, t3 % LimbBase, t4 % LimbBase>>

\* hash % n for a small n
HashMod(h, n) ==
    LET a4 == h[4] % n
        a3 == (a4 * LimbBase + h[3]) % n
        a2 == (a3 * LimbBase + h[2]) % n
    IN (a2 * LimbBase + h[1]) % n

RECURSIVE FnvLoop(_, _, _)
FnvLoop(hash, key, i) ==
    IF i > Len(key) THEN hash
    ELSE FnvLoop(MulLimbs(XorByte(hash, key[i]), ToLimbs(FNV_PRIME)), key, i + 1)

hash_string(key) ==
    IF key = NULLKEY THEN <<0, 0, 0, 0>>
    ELSE FnvLoop(FNV_OFFSET_BASIS, key, 1)

\* the hashes of the keys in use, computed once
KeyHash == [k \in AllKeys |-> hash_string(k)]

BucketIndex(key, bucket_count) == HashMod(KeyHash[key], bucket_count)

(***************************************************************************)
(* The hash map.  buckets[i + 1] is the chain of bucket i, head first;     *)
(* an entry is [key, value].                                               *)
(***************************************************************************)
NullMap == [buckets |-> <<>>, bucket_count |-> 0, length |-> 0, item_size |-> 0]
IsNullMap(h) == h.item_size = 0

\* which allocation of a call fails, if it is reached
HmapOom == {"none", "buckets", "entry", "key", "value"}

\* (size_t)((double)bucket_count * MVN_HMAP_LOAD_FACTOR)
LoadThreshold(bucket_count) == (bucket_count * LoadNum) \div LoadDen

create_entry(key, value, value_size, oom) ==
    IF key = NULLKEY \/ value = NULLVAL THEN [ok |-> FALSE]
    ELSE IF oom = "entry" THEN [ok |-> FALSE]
    ELSE IF oom = "key" THEN [ok |-> FALSE]
    ELSE IF oom = "value" THEN [ok |-> FALSE]
    ELSE [ok |-> TRUE, entry |-> [key |-> key, value |-> value]]

\* position of key in a chain, 0 when absent (the strcmp scan)
RECURSIVE ChainScan(_, _, _)
ChainScan(chain, key, i) ==
    IF i > Len(chain) THEN 0
    ELSE IF chain[i].key = key THEN i
    ELSE ChainScan(chain, key, i + 1)

\* the rehash loop: the entries of the old chains, in bucket order and chain
\* order, each pushed on the head of its new chain
RECURSIVE RehashChain_Overwrite(_, _, _, _)
RehashChain_Overwrite(chain, i, new_buckets, new_capacity) ==
    IF i > Len(chain) THEN new_buckets
    ELSE LET new_index == BucketIndex(chain[i].key, new_capacity)
         IN RehashChain_Overwrite(chain, i + 1,
                [new_buckets EXCEPT ![new_index + 1] = <<chain[i]>>],
                new_capacity)

RECURSIVE RehashChain(_, _, _, _)
RehashChain(chain, i, new_buckets, new_capacity) ==
    IF i > Len(chain) THEN new_buckets
    ELSE LET new_index == BucketIndex(chain[i].key, new_capacity)
         IN RehashChain(chain, i + 1,
                [new_buckets EXCEPT ![new_index + 1] = <<chain[i]>> \o @],
                new_capacity)

RECURSIVE RehashAll(_, _, _, _)
RehashAll(buckets, i, new_buckets, new_capacity) ==
    IF i > Len(buckets) THEN new_buckets
    ELSE RehashAll(buckets, i + 1,
            RehashChain(buckets[i], 1, new_buckets, new_capacity),
            new_capacity)

resize_hashmap_NoRehash(hmap, new_capacity, oom) ==
    IF IsNullMap(hmap) \/ new_capacity < hmap.length
    THEN [ok |-> FALSE, hmap |-> hmap]
    ELSE IF oom = "buckets" THEN [ok |-> FALSE, hmap |-> hmap]
    ELSE [ok |-> TRUE,
          hmap |-> [hmap EXCEPT
                      !.buckets = hmap.buckets \o
                            [i \in 1..(new_capacity - hmap.bucket_count) |-> <<>>],
                      !.bucket_count = new_capacity]]

\* the SIZE_MAX / sizeof(pointer) guard cannot trigger for the capacities here
resize_hashmap(hmap, new_capacity, oom) ==
    IF IsNullMap(hmap) \/ new_capacity < hmap.length
    THEN [ok |-> FALSE, hmap |-> hmap]
    ELSE IF oom = "buckets" THEN [ok |-> FALSE, hmap |-> hmap]
    ELSE [ok |-> TRUE,
          hmap |-> [hmap EXCEPT
                      !.buckets = RehashAll(hmap.buckets, 1,
                                      [i \in 1..new_capacity |-> <<>>],
                                      new_capacity),
                      !.bucket_count = new_capacity]]

\* which allocation of mvn_hmap_init fails
InitOom == {"none", "hmap", "buckets"}

mvn_hmap_init(item_size, initial_capacity, oom) ==
    IF item_size = 0 THEN NullMap
    ELSE LET cap == IF initial_capacity = 0 THEN MVN_HMAP_DEFAULT_CAPACITY
                    ELSE initial_capacity
         IN IF oom \in {"hmap", "buckets"} THEN NullMap
            ELSE [buckets |-> [i \in 1..cap |-> <<>>],
                  bucket_count |-> cap,
                  length |-> 0,
                  item_size |-> item_size]

\* what a set call reports: ret and the map it leaves, and for the record
\* whether it resized, whether it linked a new entry, and the bucket count
\* in force when the bucket index was computed (0 when it was not)
SetResult(ret, hmap, resized, linked, link_count) ==
    [ret |-> ret, hmap |-> hmap, resized |-> resized, linked |-> linked,
     link_count |-> link_count]

\* line 260: hmap->length > (size_t)((double)hmap->bucket_count * 0.75)
NeedResize_Ge(hmap) == hmap.length >= LoadThreshold(hmap.bucket_count)

\* a load check against the bucket count itself
NeedResize_Full(hmap) == hmap.length > hmap.bucket_count

NeedResize(hmap) == hmap.length > LoadThreshold(hmap.bucket_count)

\* lines 274-277: the matching entry's value is overwritten where it sits
UpdateEntry_Relink(hmap, index, pos, value) ==
    LET chain == hmap.buckets[index + 1]
    IN [hmap EXCEPT !.buckets[index + 1] =
            <<[key |-> chain[pos].key, value |-> value]>>
            \o SubSeq(chain, 1, pos - 1) \o SubSeq(chain, pos + 1, Len(chain))]

UpdateEntry(hmap, index, pos, value) ==
    [hmap EXCEPT !.buckets[index + 1][pos].value = value]

\* lines 288-291: the new entry becomes the head of its chain
LinkEntry_NoInc(hmap, index, entry) ==
    [hmap EXCEPT !.buckets[index + 1] = <<entry>> \o @]

LinkEntry(hmap, index, entry) ==
    [hmap EXCEPT !.buckets[index + 1] = <<entry>> \o @,
                 !.length = @ + 1]

mvn_hmap_set(hmap, key, value, oom) ==
    IF IsNullMap(hmap) \/ key = NULLKEY \/ value = NULLVAL
    THEN SetResult(FALSE, hmap, FALSE, FALSE, 0)
    ELSE
      LET need == NeedResize(hmap)
          rz == IF need
                THEN resize_hashmap(hmap,
                        hmap.bucket_count * MVN_HMAP_GROWTH_FACTOR, oom)
                ELSE [ok |-> TRUE, hmap |-> hmap]
      IN
      IF ~rz.ok THEN SetResult(FALSE, hmap, FALSE, FALSE, 0)
      ELSE
        LET g == rz.hmap
            index == BucketIndex(key, g.bucket_count)
            pos == ChainScan(g.buckets[index + 1], key, 1)
            e == create_entry(key, value, g.item_size, oom)
        IN
        IF pos > 0
        THEN SetResult(TRUE, UpdateEntry(g, index, pos, value),
                       need, FALSE, g.bucket_count)
        ELSE IF ~e.ok
        THEN SetResult(FALSE, g, need, FALSE, g.bucket_count)
        ELSE SetResult(TRUE, LinkEntry(g, index, e.entry),
                       need, TRUE, g.bucket_count)

mvn_hmap_get(hmap, key) ==
    IF IsNullMap(hmap) \/ key = NULLKEY THEN NULLVAL
    ELSE LET index == BucketIndex(key, hmap.bucket_count)
             pos == ChainScan(hmap.buckets[index + 1], key, 1)
         IN IF pos > 0 THEN hmap.buckets[index + 1][pos].value ELSE NULLVAL

\* lines 347 and 359: the chain without its element at position pos
ChainUnlink_DropRest(chain, pos) ==
    SubSeq(chain, 1, pos - 1)

ChainUnlink(chain, pos) ==
    SubSeq(chain, 1, pos - 1) \o SubSeq(chain, pos + 1, Len(chain))

mvn_hmap_delete(hmap, key) ==
    IF IsNullMap(hmap) \/ key = NULLKEY THEN [ret |-> FALSE, hmap |-> hmap]
    ELSE
      LET index == BucketIndex(key, hmap.bucket_count)
          chain == hmap.buckets[index + 1]
      IN
      IF Len(chain) = 0 THEN [ret |-> FALSE, hmap |-> hmap]
      ELSE IF chain[1].key = key
      THEN [ret |-> TRUE,
            hmap |-> [hmap EXCEPT !.buckets[index + 1] = ChainUnlink(chain, 1),
                                  !.length = @ - 1]]
      ELSE
        LET pos == ChainScan(chain, key, 2)
        IN IF pos > 0
           THEN [ret |-> TRUE,
                 hmap |-> [hmap EXCEPT
                             !.buckets[index + 1] = ChainUnlink(chain, pos),
                             !.length = @ - 1]]
           ELSE [ret |-> FALSE, hmap |-> hmap]

mvn_hmap_length(hmap) == IF IsNullMap(hmap) THEN 0 ELSE hmap.length

(***************************************************************************)
(* The open-addressing map of src/src/hashmap.c.  One malloc holds the     *)
(* header, then capacity entries, then capacity values.  An entry is       *)
(* [key, hash, is_present]; key is the 8-byte word of the char * field,    *)
(* the first field of the struct.  mvn__hm_get_value_ptr(entry) is the     *)
(* address of entry plus sizeof(mvn__hm_entry): that of the next entry,    *)
(* so the value of entry i lies on the first value_size bytes of entry     *)
(* i + 1, the low half of its key word when the value is an int; the value *)
(* of the last entry lies on the first bytes after the entries (tail).     *)
(* A word is                                                               *)
(*   null: all bytes zero;                                                 *)
(*   str:  the address of the copy of a key the map allocated;             *)
(*   raw:  high half zero, low half a value: a small integer as a pointer; *)
(*   wild: the high half of a heap address over a low half that is a       *)
(*         value: an address nothing was allocated at.                     *)
(***************************************************************************)
MVN__HASH_INITIAL_CAPACITY == 16
\* MVN__LOAD_FACTOR_THRESHOLD is 0.75f = LoadNum / LoadDen, exact in a float
\* the low half of a heap address read as an int: no value a caller stored
PTRBITS == -2

NullWord == [kind |-> "null", str |-> <<>>, lo |-> 0]
StrWord(key) == [kind |-> "str", str |-> key, lo |-> PTRBITS]
IsNullWord(w) == w.kind = "null"

\* memcpy of an int onto the first four bytes of a word
WriteLow(w, v) ==
    IF w.kind \in {"str", "wild"} THEN [kind |-> "wild", str |-> <<>>, lo |-> v]
    ELSE IF v = 0 THEN NullWord
    ELSE [kind |-> "raw", str |-> <<>>, lo |-> v]

\* the int read from the first four bytes of a word
ReadLow(w) == w.lo

\* a uint32_t hash as two 16-bit limbs, least significant first
Mul32(h, p) ==
    LET t1 == h[1] * p[1]
        t2 == h[1] * p[2] + h[2] * p[1] + (t1 \div LimbBase)
    IN <<t1 % LimbBase, t2 % LimbBase>>

RECURSIVE Fnv32Loop(_, _, _)
Fnv32Loop(hash, str, i) ==
    IF i > Len(str) THEN hash
    ELSE Fnv32Loop(Mul32(XorByte(hash, str[i]),
                         <<FNV_PRIME % LimbBase, FNV_PRIME \div LimbBase>>),
                   str, i + 1)

mvn__hash_string(str) ==
    Fnv32Loop(<<FNV_OFFSET_BASIS[1], FNV_OFFSET_BASIS[2]>>, str, 1)

\* the hashes of "a" .. "p" fall on the sixteen slots of the first table
OKeyHash == [k \in OKeys |-> mvn__hash_string(k)]

\* hash & (capacity - 1), capacity a power of two of at most 2^16
SlotIndex(hash, capacity) == hash[1] % capacity

NoHash == <<0, 0>>
EmptyEntry == [key |-> NullWord, hash |-> NoHash, is_present |-> FALSE]

\* hm == NULL
NullOmap == [capacity |-> 0, count |-> 0, entries |-> <<>>, tail |-> 0]
IsNullOmap(hm) == hm.capacity = 0

\* which malloc of a call returns NULL, if it is reached
OmapOom == {"none", "new", "resize", "key"}

\* what strcmp does with a first argument that is no string: it reads
\* memory the map never allocated
UbOutcomes == {"match", "differ", "crash"}

\* strcmp(entry->key, key) == 0 for two words that are not null
StrCmp(w, key, ub) ==
    IF w.kind = "str" /\ key.kind = "str"
    THEN (IF w.str = key.str THEN "match" ELSE "differ")
    ELSE ub

\* the memset of mvn__hm_new and mvn__hm_resize; the values are not cleared:
\* tail is read only after a value was copied to it
NewTable(capacity) ==
    [capacity |-> capacity, count |-> 0,
     entries |-> [i \in 1..capacity |-> EmptyEntry], tail |-> 0]

mvn__hm_new(oom) == IF oom = "new" THEN NullOmap
                    ELSE NewTable(MVN__HASH_INITIAL_CAPACITY)

\* the value of the entry at index, and the table after a value is copied
\* to it
ValueAt(hm, index) ==
    IF index + 1 < hm.capacity THEN ReadLow(hm.entries[index + 2].key)
    ELSE hm.tail

StoreValue(hm, index, v) ==
    IF index + 1 < hm.capacity
    THEN [hm EXCEPT !.entries[index + 2].key = WriteLow(@, v)]
    ELSE [hm EXCEPT !.tail = v]

\* the probe of mvn__hm_find_entry from index; n counts the slots visited:
\* the table does not change during the probe, so a probe that has visited
\* every slot without returning never returns.  tombstone is -1 for NULL.
RECURSIVE FindLoop(_, _, _, _, _, _, _)
FindLoop(hm, key, hash, index, tombstone, n, ub) ==
    IF n >= hm.capacity THEN [end |-> "hang", index |-> 0]
    ELSE
      LET entry == hm.entries[index + 1]
          next == (index + 1) % hm.capacity
      IN IF IsNullWord(entry.key) /\ ~entry.is_present
         THEN [end |-> "returned",
               index |-> IF tombstone >= 0 THEN tombstone ELSE index]
         ELSE IF IsNullWord(entry.key) /\ entry.is_present
         THEN FindLoop(hm, key, hash, next,
                       IF tombstone >= 0 THEN tombstone ELSE index, n + 1, ub)
         ELSE IF entry.hash = hash
         THEN LET c == StrCmp(entry.key, key, ub)
              IN IF c = "crash" THEN [end |-> "crash", index |-> 0]
                 ELSE IF c = "match" THEN [end |-> "returned", index |-> index]
                 ELSE FindLoop(hm, key, hash, next, tombstone, n + 1, ub)
         ELSE FindLoop(hm, key, hash, next, tombstone, n + 1, ub)

\* key is the address of the caller's string or the word of an entry's key
mvn__hm_find_entry(hm, key, hash, ub) ==
    FindLoop(hm, key, hash, SlotIndex(hash, hm.capacity), -1, 0, ub)

\* the rehash loop of mvn__hm_resize over the old entries from index i;
\* an entry's key word is copied as it is
RECURSIVE RehashEntries(_, _, _, _)
RehashEntries(old, i, new, ub) ==
    IF i >= old.capacity \/ new.end # "returned" THEN new
    ELSE
      LET entry == old.entries[i + 1]
      IN IF IsNullWord(entry.key) \/ ~entry.is_present
         THEN RehashEntries(old, i + 1, new, ub)
         ELSE
           LET d == mvn__hm_find_entry(new.hm, entry.key, entry.hash, ub)
           IN IF d.end # "returned" THEN [end |-> d.end, hm |-> new.hm]
              ELSE
                LET keyed == [new.hm EXCEPT
                                !.entries[d.index + 1] =
                                    [key |-> entry.key, hash |-> entry.hash,
                                     is_present |-> TRUE]]
                    valued == StoreValue(keyed, d.index, ValueAt(old, i))
                IN RehashEntries(old, i + 1,
                       [end |-> "returned",
                        hm |-> [valued EXCEPT !.count = @ + 1]], ub)

mvn__hm_resize(hm, new_capacity, oom, ub) ==
    IF IsNullOmap(hm) \/ oom = "resize" THEN [end |-> "returned", hm |-> hm]
    ELSE RehashEntries(hm, 0,
            [end |-> "returned", hm |-> NewTable(new_capacity)], ub)

\* (float)(count + 1) > (float)capacity * 0.75f
OmapNeedResize(hm) == (hm.count + 1) * LoadDen > hm.capacity * LoadNum

\* index is the entry the call found and wrote, -1 when it wrote none
mvn__hm_set(hm0, key, value, oom, ub) ==
    LET hm1 == IF IsNullOmap(hm0) THEN mvn__hm_new(oom) ELSE hm0
    IN IF IsNullOmap(hm1) THEN [end |-> "returned", hm |-> hm1, index |-> -1]
       ELSE
         LET rz == IF OmapNeedResize(hm1)
                   THEN mvn__hm_resize(hm1, hm1.capacity * 2, oom, ub)
                   ELSE [end |-> "returned", hm |-> hm1]
         IN IF rz.end # "returned"
            THEN [end |-> rz.end, hm |-> rz.hm, index |-> -1]
            ELSE
              LET hash == OKeyHash[key]
                  f == mvn__hm_find_entry(rz.hm, StrWord(key), hash, ub)
              IN IF f.end # "returned"
                 THEN [end |-> f.end, hm |-> rz.hm, index |-> -1]
                 ELSE
                   LET entry == rz.hm.entries[f.index + 1]
                       is_new_key == IsNullWord(entry.key)
                   IN IF is_new_key /\ oom = "key"
                      THEN [end |-> "returned", hm |-> rz.hm, index |-> -1]
                      ELSE
                        LET keyed ==
                              IF is_new_key
                              THEN [rz.hm EXCEPT
                                      !.entries[f.index + 1] =
                                          [key |-> StrWord(key), hash |-> hash,
                                           is_present |-> TRUE],
                                      !.count = @ + 1]
                              ELSE rz.hm
                        IN [end |-> "returned",
                            hm |-> StoreValue(keyed, f.index, value),
                            index |-> f.index]

\* the probes of mvn__hm_get and mvn__hm_del: index of the entry that holds
\* the key, -1 at an empty slot
RECURSIVE ProbeLoop(_, _, _, _, _, _)
ProbeLoop(hm, key, hash, index, n, ub) ==
    IF n >= hm.capacity THEN [end |-> "hang", index |-> 0]
    ELSE
      LET entry == hm.entries[index + 1]
          next == (index + 1) % hm.capacity
      IN IF IsNullWord(entry.key) /\ ~entry.is_present
         THEN [end |-> "returned", index |-> -1]
         ELSE IF ~IsNullWord(entry.key) /\ entry.is_present /\ entry.hash = hash
         THEN LET c == StrCmp(entry.key, StrWord(key), ub)
              IN IF c = "crash" THEN [end |-> "crash", index |-> 0]
                 ELSE IF c = "match" THEN [end |-> "returned", index |-> index]
                 ELSE ProbeLoop(hm, key, hash, next, n + 1, ub)
         ELSE ProbeLoop(hm, key, hash, next, n + 1, ub)

\* value is NULLVAL for a NULL return, else the int behind the pointer
mvn__hm_get(hm, key, ub) ==
    IF IsNullOmap(hm) \/ hm.count = 0
    THEN [end |-> "returned", value |-> NULLVAL]
    ELSE LET hash == OKeyHash[key]
             f == ProbeLoop(hm, key, hash, SlotIndex(hash, hm.capacity), 0, ub)
         IN IF f.end # "returned" THEN [end |-> f.end, value |-> NULLVAL]
            ELSE IF f.index < 0 THEN [end |-> "returned", value |-> NULLVAL]
            ELSE [end |-> "returned", value |-> ValueAt(hm, f.index)]

mvn__hm_del(hm, key, ub) ==
    IF IsNullOmap(hm) \/ hm.count = 0
    THEN [end |-> "returned", ret |-> FALSE, hm |-> hm]
    ELSE LET hash == OKeyHash[key]
             f == ProbeLoop(hm, key, hash, SlotIndex(hash, hm.capacity), 0, ub)
         IN IF f.end # "returned" THEN [end |-> f.end, ret |-> FALSE, hm |-> hm]
            ELSE IF f.index < 0
            THEN [end |-> "returned", ret |-> FALSE, hm |-> hm]
            ELSE [end |-> "returned", ret |-> TRUE,
                  hm |-> [hm EXCEPT
                            !.entries[f.index + 1].key = NullWord,
                            !.count = @ - 1]]

\* mvn_hmap_len(hm)
mvn_hmap_len(hm) == IF IsNullOmap(hm) THEN 0 ELSE hm.count



(***************************************************************************)
(* The list.  data is the buffer, one slot per element of capacity; the    *)
(* slots at and after length keep whatever they held: GARBAGE where        *)
(* nothing was ever written (the buffer comes from malloc and realloc),    *)
(* the old element where one was removed.  A NULL list is NullList.        *)
(***************************************************************************)
MVN_LIST_DEFAULT_CAPACITY == 8
MVN_LIST_GROWTH_FACTOR == 2
MVN_LIST_STACK_BUFFER_SIZE == 64
GARBAGE == 0
\* (size_t)-1, the "to the end of the list" argument of mvn_list_slice
SIZE_MAX == -1

NullList == [data |-> <<>>, item_size |-> 0, length |-> 0, capacity |-> 0]
IsNullList(l) == l.item_size = 0

\* which allocation of mvn_list_init fails
ListInitOom == {"none", "list", "data"}

\* MVN_MALLOC(n * item_size): n slots nothing was written to
Malloc(n) == [i \in 1..n |-> GARBAGE]

\* a realloc that hands back a new block and copies nothing into it
Realloc_Fresh(data, n) == [i \in 1..n |-> GARBAGE]

\* MVN_REALLOC(data, n * item_size): the old slots that fit, then new ones
Realloc(data, n) ==
    [i \in 1..n |-> IF i <= Len(data) THEN data[i] ELSE GARBAGE]

\* a copy that runs upwards item by item over an overlapping range: the
\* items already overwritten are copied again
MemMove_Ascending(dst, to, src, from, count) ==
    [i \in 1..Len(dst) |->
        IF i >= to /\ i < to + count
        THEN IF dst = src /\ to > from
             THEN src[from + ((i - to) % (to - from))]
             ELSE src[from + (i - to)]
        ELSE dst[i]]

\* SDL_memcpy / SDL_memmove of count items from src[from ..] to dst[to ..]
MemMove(dst, to, src, from, count) ==
    [i \in 1..Len(dst) |->
        IF i >= to /\ i < to + count THEN src[from + (i - to)] ELSE dst[i]]

mvn_list_init(item_size, initial_capacity, oom) ==
    IF item_size = 0 THEN NullList
    ELSE LET cap == IF initial_capacity = 0 THEN MVN_LIST_DEFAULT_CAPACITY
                    ELSE initial_capacity
         IN IF oom \in {"list", "data"} THEN NullList
            ELSE [data |-> Malloc(cap), item_size |-> item_size,
                  length |-> 0, capacity |-> cap]

mvn_list_length(list) == IF IsNullList(list) THEN 0 ELSE list.length

\* list->data = MVN_REALLOC(list->data, ...): a NULL return overwrites the
\* pointer to the buffer before the call reports the failure
mvn_list_resize_AssignFirst(list, new_capacity, fail) ==
    IF IsNullList(list) THEN [ret |-> FALSE, list |-> list]
    ELSE
      LET c1 == IF new_capacity < list.length THEN list.length
                ELSE new_capacity
          c2 == IF c1 > 0 /\ c1 < MVN_LIST_DEFAULT_CAPACITY
                THEN MVN_LIST_DEFAULT_CAPACITY ELSE c1
      IN IF c1 = list.capacity THEN [ret |-> TRUE, list |-> list]
         ELSE IF fail
         THEN [ret |-> FALSE, list |-> [list EXCEPT !.data = <<>>]]
         ELSE [ret |-> TRUE,
               list |-> [list EXCEPT !.data = Realloc(list.data, c2),
                                     !.capacity = c2]]

\* a resize without the minimum threshold of lines 133-136
mvn_list_resize_NoSnap(list, new_capacity, fail) ==
    IF IsNullList(list) THEN [ret |-> FALSE, list |-> list]
    ELSE
      LET c1 == IF new_capacity < list.length THEN list.length
                ELSE new_capacity
      IN IF c1 = list.capacity THEN [ret |-> TRUE, list |-> list]
         ELSE IF fail THEN [ret |-> FALSE, list |-> list]
         ELSE [ret |-> TRUE,
               list |-> [list EXCEPT !.data = Realloc(list.data, c1),
                                     !.capacity = c1]]

mvn_list_resize(list, new_capacity, fail) ==
    IF IsNullList(list) THEN [ret |-> FALSE, list |-> list]
    ELSE
      LET c1 == IF new_capacity < list.length THEN list.length
                ELSE new_capacity
          c2 == IF c1 > 0 /\ c1 < MVN_LIST_DEFAULT_CAPACITY
                THEN MVN_LIST_DEFAULT_CAPACITY ELSE c1
      IN IF c1 = list.capacity THEN [ret |-> TRUE, list |-> list]
         ELSE IF fail THEN [ret |-> FALSE, list |-> list]
         ELSE [ret |-> TRUE,
               list |-> [list EXCEPT !.data = Realloc(list.data, c2),
                                     !.capacity = c2]]

mvn_list_reserve(list, capacity, fail) ==
    IF IsNullList(list) THEN [ret |-> FALSE, list |-> list]
    ELSE IF capacity <= list.capacity THEN [ret |-> TRUE, list |-> list]
    ELSE mvn_list_resize(list, capacity, fail)

mvn_list_ensure_capacity(list, fail) ==
    IF list.length >= list.capacity
    THEN LET doubled == list.capacity * MVN_LIST_GROWTH_FACTOR
             new_capacity == IF doubled = 0 THEN MVN_LIST_DEFAULT_CAPACITY
                             ELSE doubled
         IN mvn_list_resize(list, new_capacity, fail)
    ELSE [ret |-> TRUE, list |-> list]

\* a bounds check against the capacity of the buffer
mvn_list_get_Capacity(list, index) ==
    IF IsNullList(list) \/ index >= list.capacity THEN NULLVAL
    ELSE list.data[index + 1]

\* the item at index, NULLVAL for a NULL pointer
mvn_list_get(list, index) ==
    IF IsNullList(list) \/ index >= list.length THEN NULLVAL
    ELSE list.data[index + 1]

mvn_list_set(list, index, item) ==
    IF IsNullList(list) \/ item = NULLVAL \/ index >= list.length
    THEN [ret |-> FALSE, list |-> list]
    ELSE [ret |-> TRUE, list |-> [list EXCEPT !.data[index + 1] = item]]

\* lines 218-220: the item is copied to the slot at length, length grows
AppendItem_First(list, item) ==
    [list EXCEPT !.data[1] = item, !.length = @ + 1]

AppendItem(list, item) ==
    [list EXCEPT !.data[list.length + 1] = item, !.length = @ + 1]

mvn_list_push(list, item, fail) ==
    IF IsNullList(list) \/ item = NULLVAL THEN [ret |-> FALSE, list |-> list]
    ELSE LET ec == mvn_list_ensure_capacity(list, fail)
         IN IF ~ec.ret THEN [ret |-> FALSE, list |-> ec.list]
            ELSE [ret |-> TRUE, list |-> AppendItem(ec.list, item)]

\* a NULL items pointer is the empty sequence with a count the caller states
\* a bulk copy whose destination is the start of the buffer
mvn_list_push_batch_AtStart(list, items, items_null, count, fail) ==
    IF IsNullList(list) \/ items_null \/ count = 0
    THEN [ret |-> FALSE, list |-> list]
    ELSE
      LET rz == IF list.length + count > list.capacity
                THEN mvn_list_resize(list,
                        (list.length + count) * MVN_LIST_GROWTH_FACTOR, fail)
                ELSE [ret |-> TRUE, list |-> list]
      IN IF ~rz.ret THEN [ret |-> FALSE, list |-> rz.list]
         ELSE [ret |-> TRUE,
               list |-> [rz.list EXCEPT
                           !.data = MemMove(rz.list.data, 1, items, 1, count),
                           !.length = @ + count]]

mvn_list_push_batch(list, items, items_null, count, fail) ==
    IF IsNullList(list) \/ items_null \/ count = 0
    THEN [ret |-> FALSE, list |-> list]
    ELSE
      LET rz == IF list.length + count > list.capacity
                THEN mvn_list_resize(list,
                        (list.length + count) * MVN_LIST_GROWTH_FACTOR, fail)
                ELSE [ret |-> TRUE, list |-> list]
      IN IF ~rz.ret THEN [ret |-> FALSE, list |-> rz.list]
         ELSE [ret |-> TRUE,
               list |-> [rz.list EXCEPT
                           !.data = MemMove(rz.list.data, list.length + 1,
                                            items, 1, count),
                           !.length = @ + count]]

\* lines 269-274: length drops, then the slot at the new length is copied out
PopItem_Front(list, want_out) ==
    [list |-> [list EXCEPT !.length = @ - 1],
     out |-> IF want_out THEN list.data[1] ELSE NULLVAL]

PopItem(list, want_out) ==
    [list |-> [list EXCEPT !.length = @ - 1],
     out |-> IF want_out THEN list.data[list.length] ELSE NULLVAL]

mvn_list_pop(list, want_out) ==
    IF IsNullList(list) \/ list.length = 0
    THEN [ret |-> FALSE, list |-> list, out |-> NULLVAL]
    ELSE LET r == PopItem(list, want_out)
         IN [ret |-> TRUE, list |-> r.list, out |-> r.out]

mvn_list_unshift(list, item, fail) ==
    IF IsNullList(list) \/ item = NULLVAL THEN [ret |-> FALSE, list |-> list]
    ELSE
      LET ec == mvn_list_ensure_capacity(list, fail)
      IN IF ~ec.ret THEN [ret |-> FALSE, list |-> ec.list]
         ELSE
           LET l == ec.list
               moved == IF l.length > 0
                        THEN MemMove(l.data, 2, l.data, 1, l.length)
                        ELSE l.data
           IN [ret |-> TRUE,
               list |-> [l EXCEPT !.data = [moved EXCEPT ![1] = item],
                                  !.length = @ + 1]]

mvn_list_shift(list, want_out) ==
    IF IsNullList(list) \/ list.length = 0
    THEN [ret |-> FALSE, list |-> list, out |-> NULLVAL]
    ELSE
      LET moved == IF list.length > 1
                   THEN MemMove(list.data, 1, list.data, 2, list.length - 1)
                   ELSE list.data
      IN [ret |-> TRUE,
          list |-> [list EXCEPT !.data = moved, !.length = @ - 1],
          out |-> IF want_out THEN list.data[1] ELSE NULLVAL]

\* a copy that starts at the head of the list, not at start
mvn_list_slice_FromHead(list, start, end, oom) ==
    IF IsNullList(list) THEN NullList
    ELSE
      LET e == IF end = SIZE_MAX \/ end > list.length THEN list.length ELSE end
      IN IF start > list.length \/ start > e THEN NullList
         ELSE
           LET slice_length == e - start
               result == mvn_list_init(list.item_size,
                            IF slice_length > 0 THEN slice_length
                            ELSE MVN_LIST_DEFAULT_CAPACITY, oom)
           IN IF IsNullList(result) THEN NullList
              ELSE IF slice_length > 0
              THEN [result EXCEPT
                      !.data = MemMove(result.data, 1, list.data, 1,
                                       slice_length),
                      !.length = slice_length]
              ELSE result

mvn_list_slice(list, start, end, oom) ==
    IF IsNullList(list) THEN NullList
    ELSE
      LET e == IF end = SIZE_MAX \/ end > list.length THEN list.length ELSE end
      IN IF start > list.length \/ start > e THEN NullList
         ELSE
           LET slice_length == e - start
               result == mvn_list_init(list.item_size,
                            IF slice_length > 0 THEN slice_length
                            ELSE MVN_LIST_DEFAULT_CAPACITY, oom)
           IN IF IsNullList(result) THEN NullList
              ELSE IF slice_length > 0
              THEN [result EXCEPT
                      !.data = MemMove(result.data, 1, list.data, start + 1,
                                       slice_length),
                      !.length = slice_length]
              ELSE result

\* the items of list2 copied to the start of the result, not after list1's
mvn_list_concat_Overlay(list1, list2, oom) ==
    IF IsNullList(list1) \/ IsNullList(list2) THEN NullList
    ELSE IF list1.item_size # list2.item_size THEN NullList
    ELSE
      LET total_length == list1.length + list2.length
          result == mvn_list_init(list1.item_size,
                        IF total_length > 0 THEN total_length
                        ELSE MVN_LIST_DEFAULT_CAPACITY, oom)
      IN IF IsNullList(result) THEN NullList
         ELSE
           LET r1 == IF list1.length > 0
                     THEN [result EXCEPT
                             !.data = MemMove(result.data, 1, list1.data, 1,
                                              list1.length),
                             !.length = list1.length]
                     ELSE result
           IN IF list2.length > 0
              THEN [r1 EXCEPT
                      !.data = MemMove(r1.data, 1, list2.data,
                                       1, list2.length),
                      !.length = @ + list2.length]
              ELSE r1

mvn_list_concat(list1, list2, oom) ==
    IF IsNullList(list1) \/ IsNullList(list2) THEN NullList
    ELSE IF list1.item_size # list2.item_size THEN NullList
    ELSE
      LET total_length == list1.length + list2.length
          result == mvn_list_init(list1.item_size,
                        IF total_length > 0 THEN total_length
                        ELSE MVN_LIST_DEFAULT_CAPACITY, oom)
      IN IF IsNullList(result) THEN NullList
         ELSE
           LET r1 == IF list1.length > 0
                     THEN [result EXCEPT
                             !.data = MemMove(result.data, 1, list1.data, 1,
                                              list1.length),
                             !.length = list1.length]
                     ELSE result
           IN IF list2.length > 0
              THEN [r1 EXCEPT
                      !.data = MemMove(r1.data, list1.length + 1, list2.data,
                                       1, list2.length),
                      !.length = @ + list2.length]
              ELSE r1

mvn_list_clone(list, oom) ==
    IF IsNullList(list) THEN NullList
    ELSE
      LET result == mvn_list_init(list.item_size, list.capacity, oom)
      IN IF IsNullList(result) THEN NullList
         ELSE IF list.length > 0
         THEN [result EXCEPT
                 !.data = MemMove(result.data, 1, list.data, 1, list.length),
                 !.length = list.length]
         ELSE result

\* a swap loop that runs over the whole list: every pair is swapped twice
RECURSIVE ReverseLoop_Full(_, _, _)
ReverseLoop_Full(data, length, i) ==
    IF i >= length THEN data
    ELSE ReverseLoop_Full([data EXCEPT ![i + 1] = data[length - i],
                                       ![length - i] = data[i + 1]],
                          length, i + 1)

\* the swap loop: for i < length / 2, items i and length - 1 - i change places
RECURSIVE ReverseLoop(_, _, _)
ReverseLoop(data, length, i) ==
    IF i >= length \div 2 THEN data
    ELSE ReverseLoop([data EXCEPT ![i + 1] = data[length - i],
                                  ![length - i] = data[i + 1]],
                     length, i + 1)

\* fail: the MVN_MALLOC of the temporary, reached only by items larger than
\* the stack buffer
mvn_list_reverse(list, fail) ==
    IF IsNullList(list) THEN [ret |-> FALSE, list |-> list]
    ELSE IF list.length <= 1 THEN [ret |-> TRUE, list |-> list]
    ELSE IF list.item_size > MVN_LIST_STACK_BUFFER_SIZE /\ fail
    THEN [ret |-> FALSE, list |-> list]
    ELSE [ret |-> TRUE,
          list |-> [list EXCEPT !.data = ReverseLoop(list.data, list.length, 0)]]

\* a copying pass that writes every item, whatever the predicate answers
RECURSIVE FilterCopy_All(_, _, _, _)
FilterCopy_All(list, pass2, i, result) ==
    IF i >= list.length THEN result
    ELSE FilterCopy_All(list, pass2, i + 1,
            [result EXCEPT
               !.data = IF result.length < Len(result.data)
                        THEN [result.data EXCEPT ![result.length + 1] =
                                                    list.data[i + 1]]
                        ELSE Append(result.data, list.data[i + 1]),
               !.length = @ + 1])

\* the copying pass: the items the predicate accepts are written one after
\* the other from the start of the result buffer; a write at or past the end
\* of the buffer lands in the memory after it, kept here as further slots
RECURSIVE FilterCopy(_, _, _, _)
FilterCopy(list, pass2, i, result) ==
    IF i >= list.length THEN result
    ELSE IF pass2[i + 1]
    THEN FilterCopy(list, pass2, i + 1,
            [result EXCEPT
               !.data = IF result.length < Len(result.data)
                        THEN [result.data EXCEPT ![result.length + 1] =
                                                    list.data[i + 1]]
                        ELSE Append(result.data, list.data[i + 1]),
               !.length = @ + 1])
    ELSE FilterCopy(list, pass2, i + 1, result)

\* pass1[i + 1] and pass2[i + 1] are what filter(item i, user_data) answers
\* in the counting pass and in the copying pass; filter_null is a NULL filter
mvn_list_filter(list, filter_null, pass1, pass2, oom) ==
    IF IsNullList(list) \/ filter_null THEN NullList
    ELSE
      LET match_count == Cardinality({i \in 1..list.length : pass1[i]})
          result == mvn_list_init(list.item_size,
                        IF match_count > 0 THEN match_count
                        ELSE MVN_LIST_DEFAULT_CAPACITY, oom)
      IN IF IsNullList(result) THEN NullList
         ELSE IF match_count > 0
         THEN IF match_count = list.length
              THEN [result EXCEPT
                      !.data = MemMove(result.data, 1, list.data, 1,
                                       list.length),
                      !.length = list.length]
              ELSE FilterCopy(list, pass2, 0, result)
         ELSE result

mvn_list_clear(list) ==
    IF IsNullList(list) THEN [ret |-> FALSE, list |-> list]
    ELSE [ret |-> TRUE, list |-> [list EXCEPT !.length = 0]]

mvn_list_trim(list, fail) ==
    IF IsNullList(list) THEN [ret |-> FALSE, list |-> list]
    ELSE IF list.length = 0
    THEN mvn_list_resize(list, MVN_LIST_DEFAULT_CAPACITY, fail)
    ELSE IF list.capacity > list.length
    THEN mvn_list_resize(list, list.length, fail)
    ELSE [ret |-> TRUE, list |-> list]

(***************************************************************************)
(* The lists a hash map returns.  An item of the list of keys is a char *  *)
(* to a copy of the key: the copy is the number of its string in the table *)
(* of the strings in use.                                                  *)
(***************************************************************************)
\* sizeof(char *)
PointerSize == 8

KeyTable == KeyPool \o [i \in 1..FillCount |-> TestKey(i - 1)]
SDL_strdup(key) == CHOOSE p \in 1..Len(KeyTable) : KeyTable[p] = key
StringAt(p) == KeyTable[p]

\* which allocation of mvn_hmap_keys or mvn_hmap_values fails
HmapListOom == ListInitOom \cup {"strdup"}

\* a walk result: ok is FALSE once a copy or a push has failed
\* the inner while loop over one chain
RECURSIVE KeysOfChain_HeadOnly(_, _, _, _)
KeysOfChain_HeadOnly(chain, i, walk, oom) ==
    IF i > Len(chain) \/ i > 1 \/ ~walk.ok THEN walk
    ELSE IF oom = "strdup" THEN [ok |-> FALSE, list |-> walk.list]
    ELSE LET r == mvn_list_push(walk.list, SDL_strdup(chain[i].key), FALSE)
         IN KeysOfChain_HeadOnly(chain, i + 1, [ok |-> r.ret, list |-> r.list], oom)

RECURSIVE KeysOfChain(_, _, _, _)
KeysOfChain(chain, i, walk, oom) ==
    IF i > Len(chain) \/ ~walk.ok THEN walk
    ELSE IF oom = "strdup" THEN [ok |-> FALSE, list |-> walk.list]
    ELSE LET r == mvn_list_push(walk.list, SDL_strdup(chain[i].key), FALSE)
         IN KeysOfChain(chain, i + 1, [ok |-> r.ret, list |-> r.list], oom)

RECURSIVE KeysOfBuckets(_, _, _, _)
KeysOfBuckets(buckets, i, walk, oom) ==
    IF i > Len(buckets) THEN walk
    ELSE KeysOfBuckets(buckets, i + 1, KeysOfChain(buckets[i], 1, walk, oom),
                       oom)

\* on a failure the copies and the list are freed and NULL is returned
mvn_hmap_keys(hmap, oom) ==
    IF IsNullMap(hmap) THEN NullList
    ELSE LET keys == mvn_list_init(PointerSize, hmap.length, oom)
         IN IF IsNullList(keys) THEN NullList
            ELSE LET walk == KeysOfBuckets(hmap.buckets, 1,
                                           [ok |-> TRUE, list |-> keys], oom)
                 IN IF walk.ok THEN walk.list ELSE NullList

RECURSIVE ValuesOfChain(_, _, _)
ValuesOfChain(chain, i, walk) ==
    IF i > Len(chain) \/ ~walk.ok THEN walk
    ELSE LET r == mvn_list_push(walk.list, chain[i].value, FALSE)
         IN ValuesOfChain(chain, i + 1, [ok |-> r.ret, list |-> r.list])

RECURSIVE ValuesOfBuckets(_, _, _)
ValuesOfBuckets(buckets, i, walk) ==
    IF i > Len(buckets) THEN walk
    ELSE ValuesOfBuckets(buckets, i + 1, ValuesOfChain(buckets[i], 1, walk))

mvn_hmap_values(hmap, oom) ==
    IF IsNullMap(hmap) THEN NullList
    ELSE LET values == mvn_list_init(hmap.item_size, hmap.length, oom)
         IN IF IsNullList(values) THEN NullList
            ELSE LET walk == ValuesOfBuckets(hmap.buckets, 1,
                                             [ok |-> TRUE, list |-> values])
                 IN IF walk.ok THEN walk.list ELSE NullList

(***************************************************************************)
(* State.                                                                  *)
(*   hmap    the map instance (NullMap when mvn_hmap_init returned NULL)   *)
(*   hlast   the last call: its arguments, what it returned and did, and   *)
(*           where its key sat on entry (pos in a chain of chain_len       *)
(*           entries, pos = 0 when absent)                                 *)
(*   href    for every key, the value of its most recent successful set    *)
(*           not followed by a successful delete (NULLVAL when none)       *)
(*   script  "free": any call on the small key set; "fill": the caller     *)
(*           inserts key0, key1, ... in turn, as the resize test does      *)
(*   filled  number of keys the fill script has inserted                   *)
(***************************************************************************)
VARIABLES hmap, hlast, href, script, filled,
          list, llast, lout, lrun, lscript, lshared,
          omap, olast, oscript,
          rseq

\* the open-addressing map: omap is the table behind the caller's pointer,
\* olast the last call on it (end tells whether it returned, never returned
\* or crashed), oscript the caller's program and its position
ovars == <<omap, olast, oscript>>
hvars == <<hmap, hlast, href, script, filled, ovars>>
\* the call of mvn_load_random_sequence in progress: its arguments, the
\* list it builds and where it stands (pc)
uvars == <<rseq>>
lvars == <<list, llast, lout, lrun, lscript, lshared, uvars>>
vars == <<hvars, lvars>>

\* the keys the caller uses
ScriptKeys == IF script = "free" THEN Keys ELSE FillKeys

\* initial capacities of the free exploration; the fill script starts from
\* the default capacity, asked for as 0 or by its number
InitCaps == {1, 3}

\* the chain a key belongs to, and the key's position in it (0 when absent)
KeyChain(h, key) ==
    IF IsNullMap(h) \/ key = NULLKEY THEN <<>>
    ELSE h.buckets[BucketIndex(key, h.bucket_count) + 1]
KeyPos(h, key) == ChainScan(KeyChain(h, key), key, 1)

HLast(op, key, value, ret, resized, linked, link_count) ==
    [op |-> op, key |-> key, value |-> value, ret |-> ret,
     resized |-> resized, linked |-> linked, link_count |-> link_count,
     pos |-> KeyPos(hmap, key), chain_len |-> Len(KeyChain(hmap, key))]

\* a program that makes no list
ListIdle ==
    /\ list = NullList
    /\ llast = [op |-> "none", ret |-> FALSE, item |-> NULLVAL, n |-> 0,
                m |-> 0, out |-> NULLVAL, cap |-> 0, items |-> <<>>,
                fail |-> FALSE, other |-> NullList, pass |-> <<>>, batch |-> <<>>,
                undo |-> [on |-> FALSE, item |-> NULLVAL, cap |-> 0,
                          items |-> <<>>]]
    /\ lout = NullList
    /\ lrun = [base |-> <<>>, pushed |-> <<>>, popped |-> <<>>]
    /\ lscript = "none"
    /\ lshared = FALSE

\* the record of a call on the open-addressing map: value is what a set
\* stored or a get found, index the entry a set wrote
OLast(op, key, value, ret, end, index) ==
    [op |-> op, key |-> key, value |-> value, ret |-> ret, end |-> end,
     index |-> index]

\* a program that loads no random sequence
SeqIdle ==
    rseq = [pc |-> "idle", count |-> 0, min |-> 0, max |-> 0,
            list |-> NullList]

\* a program that makes no open-addressing map
OmapIdle ==
    /\ omap = NullOmap
    /\ olast = OLast("none", NULLKEY, NULLVAL, FALSE, "returned", -1)
    /\ oscript = [kind |-> "none", step |-> 0, value |-> 0]

HmapInit ==
    /\ ListIdle
    /\ OmapIdle
    /\ SeqIdle
    /\ script \in {"free", "fill"}
    /\ \E item_size \in {0, ItemSize} :
       \E cap \in (IF script = "free" THEN InitCaps
                   ELSE {0, MVN_HMAP_DEFAULT_CAPACITY}) :
       \E oom \in (IF script = "free" THEN InitOom ELSE {"none"}) :
          /\ script = "fill" => item_size = ItemSize
          /\ hmap = mvn_hmap_init(item_size, cap, oom)
    /\ hlast = [op |-> "init", key |-> NULLKEY, value |-> NULLVAL,
                ret |-> ~IsNullMap(hmap), resized |-> FALSE,
                linked |-> FALSE, link_count |-> 0, pos |-> 0, chain_len |-> 0]
    /\ href = [k \in ScriptKeys |-> NULLVAL]
    /\ filled = 0

\* the effect of a set call with result r on the state
ApplySet(key, value, r) ==
    /\ hmap' = r.hmap
    /\ hlast' = HLast("set", key, value, r.ret, r.resized, r.linked,
                      r.link_count)
    /\ href' = IF r.ret THEN [href EXCEPT ![key] = value] ELSE href

\* the allocations a set call reaches: the new bucket array when it resizes,
\* the entry, its key and its value when the key is new
OomReached(h, key, value) ==
    IF IsNullMap(h) \/ key = NULLKEY \/ value = NULLVAL THEN {"none"}
    ELSE {"none"}
         \cup (IF NeedResize(h) THEN {"buckets"} ELSE {})
         \cup (IF mvn_hmap_get(h, key) = NULLVAL
               THEN {"entry", "key", "value"} ELSE {})

HmapSet(key, value, oom) ==
    /\ script = "free"
    /\ oom \in OomReached(hmap, key, value)
    /\ ApplySet(key, value, mvn_hmap_set(hmap, key, value, oom))
    /\ UNCHANGED <<script, filled, lvars, ovars>>

HmapGet(key) ==
    /\ script = "free"
    /\ hlast' = HLast("get", key, mvn_hmap_get(hmap, key), TRUE,
                      FALSE, FALSE, 0)
    /\ UNCHANGED <<hmap, href, script, filled, lvars, ovars>>

HmapDelete(key) ==
    /\ script = "free"
    /\ LET r == mvn_hmap_delete(hmap, key)
       IN /\ hmap' = r.hmap
          /\ hlast' = HLast("delete", key, NULLVAL, r.ret,
                            FALSE, FALSE, 0)
          /\ href' = IF r.ret THEN [href EXCEPT ![key] = NULLVAL] ELSE href
    /\ UNCHANGED <<script, filled, lvars, ovars>>

\* the resize test: keys[i] = "key<i>", values[i] = i * 10, set in turn
FillSet ==
    /\ script = "fill"
    /\ filled < FillCount
    /\ ApplySet(TestKey(filled), filled * 10,
                mvn_hmap_set(hmap, TestKey(filled), filled * 10, "none"))
    /\ filled' = filled + 1
    /\ UNCHANGED <<script, lvars, ovars>>

HmapNext ==
    \/ \E key \in Keys \cup {NULLKEY} : \E value \in Vals \cup {NULLVAL} :
       \E oom \in HmapOom : HmapSet(key, value, oom)
    \/ \E key \in Keys \cup {NULLKEY} : HmapGet(key)
    \/ \E key \in Keys \cup {NULLKEY} : HmapDelete(key)
    \/ FillSet

SpecHmap == HmapInit /\ [][HmapNext]_vars

(***************************************************************************)
(* The caller of the open-addressing map.  Every set and delete is made on *)
(* the open-addressing map and on a chaining map of the default capacity,  *)
(* side by side.  oscript.kind is the program:                             *)
(*   "pair"   any PairCalls sets and deletes of "c", "d" and "i", whose    *)
(*            entries are neighbours in the table;                         *)
(*   "churn"  set(k, 0) then del(k) for k = "a", "b", ... in turn, the     *)
(*            last key left in the map;                                    *)
(*   "fill"   set(k, v) for k = "a", "b", ... in turn, v = oscript.value;  *)
(* the scripts make gets of any key at any time.                           *)
(***************************************************************************)
PairKeys == {<<99>>, <<100>>, <<105>>}
PairVals == 0..MaxVal
FillVals == {0, 1}

OmapInit ==
    /\ ListIdle
    /\ SeqIdle
    /\ hmap = mvn_hmap_init(ItemSize, 0, "none")
    /\ hlast = [op |-> "init", key |-> NULLKEY, value |-> NULLVAL,
                ret |-> TRUE, resized |-> FALSE,
                linked |-> FALSE, link_count |-> 0, pos |-> 0, chain_len |-> 0]
    /\ script = "free"
    /\ href = [k \in ScriptKeys |-> NULLVAL]
    /\ filled = 0
    /\ omap = NullOmap
    /\ olast = OLast("init", NULLKEY, NULLVAL, FALSE, "returned", -1)
    /\ oscript \in {[kind |-> "pair", step |-> 0, value |-> 0],
                    [kind |-> "churn", step |-> 0, value |-> 0]}
                   \cup {[kind |-> "fill", step |-> 0, value |-> v] :
                            v \in FillVals}

\* a failed malloc of the open-addressing set is run against a failed
\* MVN_MALLOC of the entry in the chaining set
ChainOom(oom) == IF oom = "none" THEN "none" ELSE "entry"

\* the mallocs and the strcmp outcomes that make a difference to a call
\* with result r(oom, ub)
Differs(r(_, _), oom, ub) ==
    /\ oom # "none" => ub = "differ"
    /\ (oom # "none" \/ ub # "differ") => r(oom, ub) # r("none", "differ")

\* a call that never returns or crashes is the last call of the program
PairSet(key, value, oom, ub) ==
    LET set(o, u) == mvn__hm_set(omap, key, value, o, u)
        r == set(oom, ub)
    IN /\ olast.end = "returned"
       /\ Differs(set, oom, ub)
       /\ omap' = r.hm
       /\ olast' = OLast("set", key, value, TRUE, r.end, r.index)
       /\ hmap' = IF r.end = "returned"
                  THEN mvn_hmap_set(hmap, key, value, ChainOom(oom)).hmap
                  ELSE hmap

PairDel(key, ub) ==
    LET del(o, u) == mvn__hm_del(omap, key, u)
        r == del("none", ub)
    IN /\ olast.end = "returned"
       /\ Differs(del, "none", ub)
       /\ omap' = r.hm
       /\ olast' = OLast("del", key, NULLVAL, r.ret, r.end, -1)
       /\ hmap' = IF r.end = "returned" THEN mvn_hmap_delete(hmap, key).hmap
                  ELSE hmap

OSet(key, value, oom, ub) ==
    /\ oscript.kind = "pair"
    /\ oscript.step < PairCalls
    /\ PairSet(key, value, oom, ub)
    /\ oscript' = [oscript EXCEPT !.step = @ + 1]
    /\ UNCHANGED <<hlast, href, script, filled, lvars>>

ODel(key, ub) ==
    /\ oscript.kind = "pair"
    /\ oscript.step < PairCalls
    /\ PairDel(key, ub)
    /\ oscript' = [oscript EXCEPT !.step = @ + 1]
    /\ UNCHANGED <<hlast, href, script, filled, lvars>>

OGet(key, ub) ==
    LET get(o, u) == mvn__hm_get(omap, key, u)
        r == get("none", ub)
    IN /\ key \in (IF oscript.kind = "pair" THEN PairKeys ELSE OKeys)
       /\ olast.end = "returned"
       /\ Differs(get, "none", ub)
       /\ olast' = OLast("get", key, r.value, r.value # NULLVAL, r.end, -1)
       /\ UNCHANGED <<omap, oscript, hmap, hlast, href, script, filled, lvars>>

OChurnStep(ub) ==
    LET k == Letters[(oscript.step \div 2) + 1]
    IN /\ oscript.kind = "churn"
       /\ oscript.step < 2 * LetterCount - 1
       /\ IF oscript.step % 2 = 0 THEN PairSet(k, 0, "none", ub)
          ELSE PairDel(k, ub)
       /\ oscript' = [oscript EXCEPT !.step = @ + 1]
       /\ UNCHANGED <<hlast, href, script, filled, lvars>>

OFillStep(ub) ==
    /\ oscript.kind = "fill"
    /\ oscript.step < LetterCount
    /\ PairSet(Letters[oscript.step + 1], oscript.value, "none", ub)
    /\ oscript' = [oscript EXCEPT !.step = @ + 1]
    /\ UNCHANGED <<hlast, href, script, filled, lvars>>

ONext ==
    \/ \E key \in PairKeys : \E value \in PairVals : \E oom \in OmapOom :
       \E ub \in UbOutcomes : OSet(key, value, oom, ub)
    \/ \E key \in PairKeys : \E ub \in UbOutcomes : ODel(key, ub)
    \/ \E key \in OKeys : \E ub \in UbOutcomes : OGet(key, ub)
    \/ \E ub \in UbOutcomes : OChurnStep(ub)
    \/ \E ub \in UbOutcomes : OFillStep(ub)

SpecOmap == OmapInit /\ [][ONext]_vars

(***************************************************************************)
(* The caller of the list.  lscript "free" explores every call on a list   *)
(* of at most MaxLen items; lscript "stack" is the push/pop test: a list   *)
(* of capacity 4, the values 10, 20, ... pushed in turn, pops at any time. *)
(* llast records the last call, lout is the list the last slice, concat,   *)
(* clone or filter returned (NullList when none is held), and lrun records *)
(* the current run of pushes followed by pops: the items of the list when  *)
(* the run began, the items pushed, the items the pops copied out.         *)
(* lshared tells whether the buffer of the list held in lout is the buffer *)
(* of the list: a write through one is then a write to the other.          *)
(***************************************************************************)
ListInitCaps == {0, 1, 2}
StackInitCap == 4
ResizeArgs == {0, 2, 9}
OtherItemSize == 8

\* the items a list holds, index 0 first
Items(l) == IF IsNullList(l) THEN <<>> ELSE [i \in 1..l.length |-> l.data[i]]

\* the arrays handed to mvn_list_push_batch
RECURSIVE SeqsOf(_, _)
SeqsOf(S, n) ==
    IF n = 0 THEN {<<>>}
    ELSE LET shorter == SeqsOf(S, n - 1)
         IN shorter \cup {Append(q, x) : q \in {r \in shorter : Len(r) = n - 1},
                                         x \in S}
Batches == SeqsOf(Vals, MaxBatch) \ {<<>>}

\* longer arrays: runs of consecutive values, so that every position of the
\* array holds a value its neighbours do not
LongBatches ==
    {[i \in 1..n |-> ((first + i - 2) % MaxVal) + 1] :
        first \in Vals, n \in 1..LongBatch}

\* whether the buffer of a clone is the buffer of its source: the clone's
\* data is the block MVN_MALLOC returns in mvn_list_init, a block no live
\* list has
CloneShares_Pointer == TRUE

CloneShares == FALSE

\* a write landed past the end of the buffer of the list held in lout
Overflowed == lout.length > lout.capacity

NoRun == [base |-> <<>>, pushed |-> <<>>, popped |-> <<>>]

\* the calls the next call can undo: a shift undoes an unshift, a reverse
\* undoes a reverse
UndoPairs == {<<"unshift", "shift">>, <<"reverse", "reverse">>}
NoUndo == [on |-> FALSE, item |-> NULLVAL, cap |-> 0, items |-> <<>>]

\* the record of a call: its arguments and results, the capacity and the
\* items of the list before it, whether its allocation failed, the second
\* list of a concat, the answers of the predicate of a filter in its two
\* passes and, when it directly follows a successful call it can undo, that
\* call's item and the capacity and items before it
LLast(op, ret, item, n, m, out) ==
    [op |-> op, ret |-> ret, item |-> item, n |-> n, m |-> m, out |-> out,
     cap |-> list.capacity, items |-> Items(list), fail |-> FALSE,
     other |-> NullList, pass |-> <<>>, batch |-> <<>>,
     undo |-> IF llast.ret /\ <<llast.op, op>> \in UndoPairs
              THEN [on |-> TRUE, item |-> llast.item, cap |-> llast.cap,
                    items |-> llast.items]
              ELSE NoUndo]

ListInit ==
    /\ OmapIdle
    /\ SeqIdle
    /\ hmap = NullMap
    /\ hlast = [op |-> "none", key |-> NULLKEY, value |-> NULLVAL,
                ret |-> FALSE, resized |-> FALSE, linked |-> FALSE,
                link_count |-> 0, pos |-> 0, chain_len |-> 0]
    /\ script = "free"
    /\ href = [k \in ScriptKeys |-> NULLVAL]
    /\ filled = 0
    /\ lscript \in {"free", "stack"}
    /\ \E item_size \in {0, ItemSize} :
       \E cap \in (IF lscript = "free" THEN ListInitCaps ELSE {StackInitCap}) :
       \E oom \in (IF lscript = "free" THEN ListInitOom ELSE {"none"}) :
          /\ lscript = "stack" => item_size = ItemSize
          /\ list = mvn_list_init(item_size, cap, oom)
    /\ llast = [op |-> "init", ret |-> ~IsNullList(list), item |-> NULLVAL,
                n |-> 0, m |-> 0, out |-> NULLVAL, cap |-> 0, items |-> <<>>,
                fail |-> FALSE, other |-> NullList, pass |-> <<>>, batch |-> <<>>,
                undo |-> NoUndo]
    /\ lout = NullList
    /\ lrun = [NoRun EXCEPT !.base = Items(list)]
    /\ lshared = FALSE

\* a call on the list itself, made while no returned list is held; fail
\* records that the MVN_REALLOC the call reached returned NULL
CallWith(op, r, fail, item, n, out, batch) ==
    /\ lscript = "free"
    /\ IsNullList(lout)
    /\ list' = r.list
    /\ llast' = [LLast(op, r.ret, item, n, 0, out) EXCEPT !.fail = fail,
                                                         !.batch = batch]
    /\ lrun' = [NoRun EXCEPT !.base = Items(r.list)]
    /\ UNCHANGED <<lout, lscript, lshared, hvars, uvars>>

Call(op, r, fail, item, n, out) == CallWith(op, r, fail, item, n, out, <<>>)

Mutate(op, r, item, n, out) == Call(op, r, FALSE, item, n, out)

\* a call that may resize the buffer: failed is its result when the
\* MVN_REALLOC it reaches returns NULL, done its result otherwise; a failure
\* is an input only where the call reaches the allocation
MutateGrow(op, failed, done, fail, item, n) ==
    /\ fail => failed # done
    /\ Call(op, IF fail THEN failed ELSE done, fail, item, n, NULLVAL)

\* the realloc of a growing push is reached only by a full list
GrowFails(l) == IF ~IsNullList(l) /\ l.length >= l.capacity
                THEN BOOLEAN ELSE {FALSE}

\* a push continues the run while no pop has been made in it
RunPush(item, r) ==
    IF ~r.ret THEN [NoRun EXCEPT !.base = Items(list)]
    ELSE IF lrun.popped = <<>>
    THEN [lrun EXCEPT !.pushed = Append(@, item)]
    ELSE [base |-> Items(list), pushed |-> <<item>>, popped |-> <<>>]

\* a pop continues the run while it has a push to undo
RunPop(r) ==
    IF ~r.ret \/ Len(lrun.popped) >= Len(lrun.pushed)
    THEN [NoRun EXCEPT !.base = Items(r.list)]
    ELSE [lrun EXCEPT !.popped = Append(@, r.out)]

ApplyPush(item, r, fail) ==
    /\ IsNullList(lout)
    /\ list' = r.list
    /\ llast' = [LLast("push", r.ret, item, 0, 0, NULLVAL)
                   EXCEPT !.fail = fail]
    /\ lrun' = RunPush(item, r)
    /\ UNCHANGED <<lout, lscript, lshared, hvars, uvars>>

ApplyPop(r) ==
    /\ IsNullList(lout)
    /\ list' = r.list
    /\ llast' = LLast("pop", r.ret, NULLVAL, 0, 0, r.out)
    /\ lrun' = RunPop(r)
    /\ UNCHANGED <<lout, lscript, lshared, hvars, uvars>>

ListPush(item, fail) ==
    /\ lscript = "free"
    /\ list.length < MaxLen
    /\ fail \in GrowFails(list)
    /\ fail => item # NULLVAL
    /\ ApplyPush(item, mvn_list_push(list, item, fail), fail)

ListPop(want_out) ==
    /\ lscript = "free"
    /\ ApplyPop(mvn_list_pop(list, want_out))

\* the push/pop test: values[idx] = (idx + 1) * 10
StackPush ==
    /\ lscript = "stack"
    /\ list.length < StackCount
    /\ ApplyPush((list.length + 1) * 10,
                 mvn_list_push(list, (list.length + 1) * 10, FALSE), FALSE)

StackPop ==
    /\ lscript = "stack"
    /\ ApplyPop(mvn_list_pop(list, TRUE))

\* a batch that leaves the list no longer than limit; llast.batch is the
\* array the caller handed over, empty for a NULL pointer
ListPushBatchUpTo(limit, items, how, fail) ==
    /\ list.length + Len(items) <= limit
    /\ how # "items" => items = <<1>>
    /\ LET count == IF how = "zero" THEN 0 ELSE Len(items)
           failed == mvn_list_push_batch(list, items, how = "null", count, TRUE)
           done == mvn_list_push_batch(list, items, how = "null", count, FALSE)
       IN /\ fail => failed # done
          /\ CallWith("push_batch", IF fail THEN failed ELSE done, fail,
                      NULLVAL, count, NULLVAL,
                      IF how = "null" THEN <<>> ELSE items)

ListPushBatch(items, how, fail) == ListPushBatchUpTo(MaxLen, items, how, fail)

ListUnshift(item, fail) ==
    /\ list.length < MaxLen
    /\ fail \in GrowFails(list)
    /\ MutateGrow("unshift", mvn_list_unshift(list, item, TRUE),
                  mvn_list_unshift(list, item, FALSE), fail, item, 0)

\* n records whether the caller passed an out_item buffer
ListShift(want_out) ==
    LET r == mvn_list_shift(list, want_out)
    IN Mutate("shift", r, NULLVAL, IF want_out THEN 1 ELSE 0, r.out)

ListGet(index) ==
    Mutate("get", [ret |-> TRUE, list |-> list], NULLVAL, index,
           mvn_list_get(list, index))

ListSet(index, item) ==
    Mutate("set", mvn_list_set(list, index, item), item, index, NULLVAL)

ListResize(new_capacity, fail) ==
    MutateGrow("resize", mvn_list_resize(list, new_capacity, TRUE),
               mvn_list_resize(list, new_capacity, FALSE), fail, NULLVAL,
               new_capacity)

ListReserve(capacity, fail) ==
    MutateGrow("reserve", mvn_list_reserve(list, capacity, TRUE),
               mvn_list_reserve(list, capacity, FALSE), fail, NULLVAL,
               capacity)

ListClear ==
    Mutate("clear", mvn_list_clear(list), NULLVAL, 0, NULLVAL)

ListTrim(fail) ==
    MutateGrow("trim", mvn_list_trim(list, TRUE), mvn_list_trim(list, FALSE),
               fail, NULLVAL, 0)

ListReverse ==
    Mutate("reverse", mvn_list_reverse(list, FALSE), NULLVAL, 0, NULLVAL)

\* a call that returns a new list; the list returned before it is released
\* once the call has read it
ConstructWith(op, result, fail, n, m, other, pass) ==
    /\ lscript = "free"
    /\ ~Overflowed
    /\ lout' = result
    /\ lshared' = (op = "clone" /\ ~IsNullList(result) /\ CloneShares)
    /\ llast' = [LLast(op, ~IsNullList(result), NULLVAL, n, m, NULLVAL)
                   EXCEPT !.fail = fail, !.other = other, !.pass = pass]
    /\ lrun' = [NoRun EXCEPT !.base = Items(list)]
    /\ UNCHANGED <<list, lscript, hvars, uvars>>

\* made(oom) is what the call returns when the allocations of its
\* mvn_list_init end as oom says; a failure is an input only where the call
\* reaches the allocations
Construct(op, made, oom, n, m) ==
    /\ oom # "none" => ~IsNullList(made["none"])
    /\ ConstructWith(op, made[oom], oom # "none", n, m, NullList, <<>>)

ListSlice(start, end, oom) ==
    /\ oom # "none" => start = 0 /\ end = SIZE_MAX
    /\ Construct("slice",
                 [o \in ListInitOom |-> mvn_list_slice(list, start, end, o)],
                 oom, start, end)

\* the second list: the list itself, the list held in lout, NULL, a list
\* of another item size, a new empty list, or a new list of two items
ConcatSeconds == {"self", "out", "null", "other", "empty", "pair"}

ListConcat(second, oom) ==
    LET list2 == CASE second = "self" -> list
                   [] second = "out" -> lout
                   [] second = "null" -> NullList
                   [] second = "other" -> mvn_list_init(OtherItemSize, 0, "none")
                   [] second = "empty" -> mvn_list_init(ItemSize, 0, "none")
                   [] second = "pair" ->
                        mvn_list_push_batch(mvn_list_init(ItemSize, 0, "none"),
                                            <<1, 2>>, FALSE, 2, FALSE).list
    IN /\ list.length + list2.length <= 2 * MaxLen
       /\ oom # "none" => ~IsNullList(mvn_list_concat(list, list2, "none"))
       /\ ConstructWith("concat", mvn_list_concat(list, list2, oom),
                        oom # "none", list2.length, 0, list2, <<>>)

ListClone(oom) ==
    Construct("clone", [o \in ListInitOom |-> mvn_list_clone(list, o)],
              oom, 0, 0)

\* the answers of the predicate in its two passes are the caller's: a
\* predicate may keep state in user_data; the call is made while no returned
\* list is held
ListFilter(filter_null, pass1, pass2, oom) ==
    /\ IsNullList(lout)
    /\ filter_null \/ oom # "none" => pass1 = pass2
    /\ oom # "none" =>
          ~IsNullList(mvn_list_filter(list, filter_null, pass1, pass2, "none"))
    /\ ConstructWith("filter",
                     mvn_list_filter(list, filter_null, pass1, pass2, oom),
                     oom # "none",
                     Cardinality({i \in 1..list.length : pass1[i]}),
                     Cardinality({i \in 1..list.length : pass2[i]}),
                     NullList,
                     IF filter_null THEN <<>> ELSE <<pass1, pass2>>)

\* mvn_list_free of the list held in lout: its buffer is freed, then the
\* list itself
ListFree ==
    /\ lscript = "free"
    /\ ~IsNullList(lout)
    /\ ~Overflowed
    /\ lout' = NullList
    /\ lshared' = FALSE
    /\ list' = IF lshared THEN [list EXCEPT !.data = Malloc(list.capacity)]
               ELSE list
    /\ llast' = LLast("free", TRUE, NULLVAL, 0, 0, NULLVAL)
    /\ UNCHANGED <<lrun, lscript, hvars, uvars>>

\* the calls made on a clone and on its source while the clone is held
CloneOps == <<"push", "set", "pop", "shift", "reverse", "resize">>
CloneResizeArg == 9

ListOp(l, op, x) ==
    CASE op = "push" -> mvn_list_push(l, x, FALSE)
      [] op = "set" -> mvn_list_set(l, 0, x)
      [] op = "pop" -> [ret |-> mvn_list_pop(l, FALSE).ret,
                        list |-> mvn_list_pop(l, FALSE).list]
      [] op = "shift" -> [ret |-> mvn_list_shift(l, FALSE).ret,
                          list |-> mvn_list_shift(l, FALSE).list]
      [] op = "reverse" -> mvn_list_reverse(l, FALSE)
      [] op = "resize" -> mvn_list_resize(l, CloneResizeArg, FALSE)

\* what a list reads from its buffer after a write through another list
\* that has the same buffer
SharedView(l, written) ==
    [l EXCEPT !.data = [i \in 1..Len(l.data) |->
                           IF i <= Len(written.data) THEN written.data[i]
                           ELSE l.data[i]]]

\* target "clone": the call is made on the clone; "source": on the list;
\* m counts the calls made since the clone; x is the item a set writes (a
\* push writes 1)
CloneCall(target, opn, x) ==
    /\ lscript = "free"
    /\ ~IsNullList(lout)
    /\ llast.op \in {"clone", "on_clone", "on_source"}
    /\ llast.m < CloneSteps
    /\ CloneOps[opn] # "set" => x = 1
    /\ LET l == IF target = "clone" THEN lout ELSE list
           r == ListOp(l, CloneOps[opn], x)
       IN /\ CloneOps[opn] = "push" => l.length < MaxLen
          /\ list' = IF target = "source" THEN r.list
                     ELSE IF lshared THEN SharedView(list, r.list) ELSE list
          /\ lout' = IF target = "clone" THEN r.list
                     ELSE IF lshared THEN SharedView(lout, r.list) ELSE lout
          /\ llast' = LLast("on_" \o target, r.ret, x, opn, llast.m + 1,
                            NULLVAL)
          /\ lrun' = [NoRun EXCEPT !.base = Items(list')]
    /\ UNCHANGED <<lscript, lshared, hvars, uvars>>

CloneNext ==
    \/ \E item \in Vals : \E fail \in BOOLEAN : ListPush(item, fail)
    \/ \E oom \in ListInitOom : ListClone(oom)
    \/ \E target \in {"clone", "source"} : \E opn \in 1..Len(CloneOps) :
       \E x \in Vals : CloneCall(target, opn, x)
    \/ ListFree

SpecListClone == ListInit /\ [][CloneNext]_vars

ListNext ==
    \/ \E item \in Vals \cup {NULLVAL} : \E fail \in BOOLEAN :
          ListPush(item, fail)
    \/ \E want_out \in BOOLEAN : ListPop(want_out)
    \/ StackPush
    \/ StackPop
    \/ \E items \in Batches : \E how \in {"items", "null", "zero"} :
       \E fail \in BOOLEAN : ListPushBatch(items, how, fail)
    \/ \E item \in Vals \cup {NULLVAL} : \E fail \in BOOLEAN :
          ListUnshift(item, fail)
    \/ \E want_out \in BOOLEAN : ListShift(want_out)
    \/ \E index \in 0..MaxLen : ListGet(index)
    \/ \E index \in 0..MaxLen : \E item \in Vals \cup {NULLVAL} :
          ListSet(index, item)
    \/ \E n \in ResizeArgs : \E fail \in BOOLEAN : ListResize(n, fail)
    \/ \E n \in ResizeArgs : \E fail \in BOOLEAN : ListReserve(n, fail)
    \/ ListClear
    \/ \E fail \in BOOLEAN : ListTrim(fail)
    \/ ListReverse
    \/ \E start \in 0..(MaxLen + 1) : \E end \in 0..(MaxLen + 1) \cup {SIZE_MAX} :
       \E oom \in ListInitOom : ListSlice(start, end, oom)
    \/ \E second \in ConcatSeconds :
       \E oom \in ListInitOom : ListConcat(second, oom)
    \/ \E oom \in ListInitOom : ListClone(oom)
    \/ \E filter_null \in BOOLEAN :
       \E pass1 \in [1..list.length -> BOOLEAN] :
       \E pass2 \in [1..list.length -> BOOLEAN] :
       \E oom \in ListInitOom : ListFilter(filter_null, pass1, pass2, oom)
    \/ ListFree

SpecList == ListInit /\ [][ListNext]_vars

\* the calls that change the list itself
MutatorNext ==
    \/ \E item \in Vals \cup {NULLVAL} : \E fail \in BOOLEAN :
          ListPush(item, fail)
    \/ \E want_out \in BOOLEAN : ListPop(want_out)
    \/ StackPush
    \/ StackPop
    \/ \E items \in Batches : \E how \in {"items", "null", "zero"} :
       \E fail \in BOOLEAN : ListPushBatch(items, how, fail)
    \/ \E item \in Vals \cup {NULLVAL} : \E fail \in BOOLEAN :
          ListUnshift(item, fail)
    \/ \E want_out \in BOOLEAN : ListShift(want_out)
    \/ \E index \in 0..MaxLen : \E item \in Vals \cup {NULLVAL} :
          ListSet(index, item)
    \/ \E n \in ResizeArgs : \E fail \in BOOLEAN : ListResize(n, fail)
    \/ \E n \in ResizeArgs : \E fail \in BOOLEAN : ListReserve(n, fail)
    \/ ListClear
    \/ \E fail \in BOOLEAN : ListTrim(fail)
    \/ ListReverse

SpecListMutators == ListInit /\ [][MutatorNext]_vars

\* the calls that build every list: any items by pushes, removed elements
\* left in the buffer by pops, the capacities by resizes
BuildCalls ==
    \/ \E item \in Vals : \E fail \in BOOLEAN : ListPush(item, fail)
    \/ \E want_out \in BOOLEAN : ListPop(want_out)
    \/ \E n \in ResizeArgs : \E fail \in BOOLEAN : ListResize(n, fail)

\* and the release of the list a constructor returned
BuildNext ==
    \/ BuildCalls
    \/ ListFree

SliceNext ==
    \/ BuildNext
    \/ \E start \in 0..(MaxLen + 1) : \E end \in 0..(MaxLen + 1) \cup {SIZE_MAX} :
       \E oom \in ListInitOom : ListSlice(start, end, oom)

SpecListSlice == ListInit /\ [][SliceNext]_vars

ConcatNext ==
    \/ BuildNext
    \/ \E second \in ConcatSeconds :
       \E oom \in ListInitOom : ListConcat(second, oom)

SpecListConcat == ListInit /\ [][ConcatNext]_vars

\* mvn_hmap_keys and mvn_hmap_values on the map as it is: lout is the list
\* returned, llast records the call and whether an allocation it reached
\* failed; the caller hands what it got to mvn_list_free before its next call
HmapCollect(op, result, oom) ==
    /\ llast.op = "none"
    /\ lout' = result
    /\ llast' = [LLast(op, ~IsNullList(result), NULLVAL, 0, 0, NULLVAL)
                   EXCEPT !.fail = oom # "none"]
    /\ UNCHANGED <<hvars, uvars, list, lrun, lscript, lshared>>

HmapKeys(oom) ==
    /\ oom = "strdup" => hmap.length > 0
    /\ oom # "none" => ~IsNullMap(hmap)
    /\ HmapCollect("keys", mvn_hmap_keys(hmap, oom), oom)

HmapValues(oom) ==
    /\ oom # "none" => ~IsNullMap(hmap)
    /\ HmapCollect("values", mvn_hmap_values(hmap, oom), oom)

\* mvn_list_free of the list of keys or values, a no-op on NULL; no call on
\* a list is on record afterwards
HmapListFree ==
    /\ llast.op \in {"keys", "values"}
    /\ lout' = NullList
    /\ llast' = LLast("none", FALSE, NULLVAL, 0, 0, NULLVAL)
    /\ UNCHANGED <<hvars, uvars, list, lrun, lscript, lshared>>

\* the calls that build every map: sets and deletes of the keys, the fill
MapBuildNext ==
    \/ \E key \in Keys : \E value \in Vals : HmapSet(key, value, "none")
    \/ \E key \in Keys : HmapDelete(key)
    \/ FillSet

CollectNext ==
    \/ llast.op = "none" /\ MapBuildNext
    \/ \E oom \in HmapListOom : HmapKeys(oom)
    \/ \E oom \in ListInitOom : HmapValues(oom)
    \/ HmapListFree

SpecHmapCollect == HmapInit /\ [][CollectNext]_vars

\* batches on lists of every length and capacity the pushes and resizes
\* build, the batch taking the list up to LongBatch items past MaxLen; no
\* further call is made on a list longer than MaxLen
BatchNext ==
    /\ list.length <= MaxLen
    /\ \/ BuildCalls
       \/ \E items \in LongBatches : \E how \in {"items", "null", "zero"} :
          \E fail \in BOOLEAN :
             ListPushBatchUpTo(MaxLen + LongBatch, items, how, fail)

SpecListBatch == ListInit /\ [][BatchNext]_vars

FilterNext ==
    \/ BuildNext
    \/ \E filter_null \in BOOLEAN :
       \E pass1 \in [1..list.length -> BOOLEAN] :
       \E pass2 \in [1..list.length -> BOOLEAN] :
       \E oom \in ListInitOom : ListFilter(filter_null, pass1, pass2, oom)

SpecListFilter == ListInit /\ [][FilterNext]_vars

\* the calls that change the list, and the reads of its items
AccessNext ==
    \/ MutatorNext
    \/ \E index \in 0..MaxLen : ListGet(index)

SpecListAccess == ListInit /\ [][AccessNext]_vars

(***************************************************************************)
(* The random sequence (mvn-utils.c).  rseq.pc is "idle" before a call of  *)
(* mvn_load_random_sequence, "loop" while the call is in its while loop,   *)
(* and "returned" once it has returned rseq.list (NullList for NULL).  One *)
(* turn of the loop is one step: a value is drawn, searched in the list,   *)
(* and pushed when it is not there.  The values are int32_t; for the       *)
(* ranges the caller uses here no subtraction or addition overflows.       *)
(***************************************************************************)
\* what SDL_rand(n) can return: a number of [0, n - 1] for a positive n,
\* 0 otherwise
SDL_rand(n) == IF n > 0 THEN 0..(n - 1) ELSE {0}

\* random_value is what SDL_rand(max) returned, max being the larger bound
mvn_get_random_value(min, max, random_value) ==
    LET lo == IF min > max THEN max ELSE min
        hi == IF min > max THEN min ELSE max
    IN lo + (random_value % (hi - lo + 1))

\* the draws of mvn_get_random_value(min, max)
RandomDraws(min, max) == SDL_rand(IF min > max THEN min ELSE max)

\* lines 101-108: the linear scan of the list for value
SeqExists(l, value) ==
    \E i \in 0..(mvn_list_length(l) - 1) : mvn_list_get(l, i) = value

\* the arguments of the caller: counts from 0, and ranges that start below
\* zero, at zero and above zero, one of them with min > max
SeqCounts == 0..MaxCount
SeqRanges == {<<-3, -2>>, <<0, 0>>, <<0, MaxCount - 1>>, <<1, MaxCount>>,
              <<2, MaxCount + 2>>, <<2, 1>>}
DrawRange == 0..(MaxCount + 1)

SeqInit ==
    /\ ListIdle
    /\ OmapIdle
    /\ SeqIdle
    /\ hmap = NullMap
    /\ hlast = [op |-> "none", key |-> NULLKEY, value |-> NULLVAL,
                ret |-> FALSE, resized |-> FALSE, linked |-> FALSE,
                link_count |-> 0, pos |-> 0, chain_len |-> 0]
    /\ script = "free"
    /\ href = [k \in ScriptKeys |-> NULLVAL]
    /\ filled = 0

\* lines 78-93: the argument checks and the creation of the list
SeqLoad(count, min, max, oom) ==
    /\ rseq.pc = "idle"
    /\ LET l == IF count <= 0 \/ min > max \/ (max - min + 1) < count
                THEN NullList
                ELSE mvn_list_init(ItemSize, count, oom)
       IN rseq' = [pc |-> IF IsNullList(l) THEN "returned" ELSE "loop",
                   count |-> count, min |-> min, max |-> max, list |-> l]
    /\ UNCHANGED <<hvars, list, llast, lout, lrun, lscript, lshared>>

\* lines 96-117: one turn of the while loop, SDL_rand having returned
\* random_value
SeqDraw(random_value) ==
    /\ rseq.pc = "loop"
    /\ mvn_list_length(rseq.list) < rseq.count
    /\ random_value \in RandomDraws(rseq.min, rseq.max)
    /\ LET value == mvn_get_random_value(rseq.min, rseq.max, random_value)
       IN IF SeqExists(rseq.list, value)
          THEN rseq' = rseq
          ELSE \E fail \in BOOLEAN :
                  rseq' = [rseq EXCEPT
                             !.list = mvn_list_push(@, value, fail).list]
    /\ UNCHANGED <<hvars, list, llast, lout, lrun, lscript, lshared>>

\* lines 96 and 119: the loop test fails and the list is returned
SeqReturn ==
    /\ rseq.pc = "loop"
    /\ ~(mvn_list_length(rseq.list) < rseq.count)
    /\ rseq' = [rseq EXCEPT !.pc = "returned"]
    /\ UNCHANGED <<hvars, list, llast, lout, lrun, lscript, lshared>>

\* mvn_unload_random_sequence of what the call returned
SeqUnload ==
    /\ rseq.pc = "returned"
    /\ rseq' = [pc |-> "idle", count |-> 0, min |-> 0, max |-> 0,
                list |-> NullList]
    /\ UNCHANGED <<hvars, list, llast, lout, lrun, lscript, lshared>>

SeqNext ==
    \/ \E count \in SeqCounts : \E range \in SeqRanges :
       \E oom \in ListInitOom : SeqLoad(count, range[1], range[2], oom)
    \/ \E random_value \in DrawRange : SeqDraw(random_value)
    \/ SeqReturn
    \/ SeqUnload

\* the random source is fair over the values it can yield: a draw that
\* stays possible is made in the end; the loop test and the return are
\* steps of the running program
SeqFair ==
    /\ \A random_value \in DrawRange : WF_vars(SeqDraw(random_value))
    /\ WF_vars(SeqReturn)

SpecSeq == SeqInit /\ [][SeqNext]_vars /\ SeqFair

\* 0 <= length <= capacity, and the buffer has capacity slots
WithinCapacity(l) == 0 <= l.length /\ l.length <= l.capacity
ListWellFormed == WithinCapacity(list) /\ Len(list.data) = list.capacity


(***************************************************************************)
(* Observations of a map used by the properties.                           *)
(***************************************************************************)
RECURSIVE ChainLenSum(_, _)
ChainLenSum(buckets, i) ==
    IF i > Len(buckets) THEN 0
    ELSE Len(buckets[i]) + ChainLenSum(buckets, i + 1)

\* the places <<bucket, position>> of all entries
Places(h) ==
    UNION {{<<b, p>> : p \in 1..Len(h.buckets[b])} : b \in 1..Len(h.buckets)}

\* the keys of every chain, in chain order
ChainKeyOrder(h) ==
    [b \in 1..Len(h.buckets) |->
        [p \in 1..Len(h.buckets[b]) |-> h.buckets[b][p].key]]

Present(h, key) == mvn_hmap_get(h, key) # NULLVAL

\* the step just taken was a call of op (hlast' describes it)
Called(op) == hlast'.op = op

(***************************************************************************)
(* C1: mvn_hmap_get(k) returns the value of the most recent successful     *)
(* set of k that no successful delete of k followed, and NULL when there   *)
(* is none; right after a successful set(k, v), get(k) is v.               *)
(***************************************************************************)
C1_GetReturnsLatestSet ==
    /\ \A k \in ScriptKeys : mvn_hmap_get(hmap, k) = href[k]
    /\ (hlast.op = "set" /\ hlast.ret)
          => mvn_hmap_get(hmap, hlast.key) = hlast.value

\* a set that resized and overwrote a key, with another key deleted earlier
C1_Witness ==
    /\ hlast.op = "set" /\ hlast.ret /\ hlast.resized /\ hlast.pos > 0
    /\ mvn_hmap_get(hmap, hlast.key) = 2
    /\ \E k \in Keys : href[k] = NULLVAL
    /\ hmap.length = 2

(***************************************************************************)
(* C2: in every reachable state no two entries of the chains hold the same *)
(* key, and length is the number of entries in all chains; failed calls    *)
(* included.                                                               *)
(***************************************************************************)
C2_UniqueKeysAndLength ==
    /\ \A x, y \in Places(hmap) :
          hmap.buckets[x[1]][x[2]].key = hmap.buckets[y[1]][y[2]].key => x = y
    /\ hmap.length = ChainLenSum(hmap.buckets, 1)

\* a set whose entry allocation failed after the table had been resized
C2_Witness ==
    /\ hlast.op = "set" /\ ~hlast.ret /\ hlast.resized
    /\ hmap.length = 2
    /\ \E b \in 1..Len(hmap.buckets) : Len(hmap.buckets[b]) = 2

(***************************************************************************)
(* C3 as stated: whenever a set call grows the table, bucket_count is      *)
(* exactly doubled and every key present before the call is still returned *)
(* with its value unchanged; 20 keys set into 16 buckets end with more     *)
(* than 16 buckets and all keys retrievable.                               *)
(***************************************************************************)
FillDone ==
    /\ script = "fill" /\ filled = FillCount
FillHolds ==
    /\ hmap.bucket_count > MVN_HMAP_DEFAULT_CAPACITY
    /\ \A i \in 0..(FillCount - 1) : mvn_hmap_get(hmap, TestKey(i)) = i * 10

C3_Original ==
    /\ [][(Called("set") /\ hlast'.resized) =>
            /\ hmap'.bucket_count = 2 * hmap.bucket_count
            /\ \A k \in ScriptKeys :
                  Present(hmap, k) =>
                      mvn_hmap_get(hmap', k) = mvn_hmap_get(hmap, k)]_vars
    /\ [](FillDone => FillHolds)

(***************************************************************************)
(* C3 amended: whenever a set call grows the table, bucket_count is        *)
(* exactly doubled and every key present before the call other than the    *)
(* key being set is still returned with its value unchanged, while the key *)
(* being set, when it was present, returns the value just set; 20 keys set *)
(* into 16 buckets end with more than 16 buckets and all keys retrievable. *)
(***************************************************************************)
C3_GrowthKeepsOtherKeys ==
    /\ [][(Called("set") /\ hlast'.resized) =>
            /\ hmap'.bucket_count = 2 * hmap.bucket_count
            /\ \A k \in ScriptKeys :
                  Present(hmap, k) =>
                      mvn_hmap_get(hmap', k) =
                          IF k = hlast'.key THEN hlast'.value
                          ELSE mvn_hmap_get(hmap, k)]_vars
    /\ [](FillDone => FillHolds)

\* the set of the fill script that finds 13 keys in 16 buckets and grows
C3_Witness ==
    /\ script = "fill"
    /\ hlast.op = "set" /\ hlast.ret /\ hlast.resized /\ hlast.linked
    /\ hmap.length > LoadThreshold(MVN_HMAP_DEFAULT_CAPACITY) + 1
    /\ hmap.bucket_count = 2 * MVN_HMAP_DEFAULT_CAPACITY

(***************************************************************************)
(* C4 as stated: a successful set of a new key that raises length above    *)
(* 0.75 x bucket_count (bucket_count as on entry) doubles bucket_count     *)
(* before the new entry is linked.                                         *)
(***************************************************************************)
C4_Original ==
    [][(Called("set") /\ hlast'.ret /\ hlast'.linked
            /\ hmap'.length > LoadThreshold(hmap.bucket_count)) =>
          /\ hmap'.bucket_count = 2 * hmap.bucket_count
          /\ hlast'.link_count = 2 * hmap.bucket_count]_vars

(***************************************************************************)
(* C4 amended: the load check of mvn_hmap_set reads length as it is on     *)
(* entry.  A set that links a new entry doubles bucket_count, before the   *)
(* entry is linked (so the entry is the head of its chain in the grown     *)
(* table), exactly when length on entry already exceeds                    *)
(* floor(0.75 x bucket_count); otherwise bucket_count is unchanged, also   *)
(* when this insertion is the one that raises length above the threshold.  *)
(***************************************************************************)
C4_GrowthDecidedOnEntry ==
    [][(Called("set") /\ hlast'.ret /\ hlast'.linked) =>
          LET count == IF hmap.length > LoadThreshold(hmap.bucket_count)
                       THEN 2 * hmap.bucket_count
                       ELSE hmap.bucket_count
              chain == hmap'.buckets[BucketIndex(hlast'.key, count) + 1]
          IN /\ hmap'.bucket_count = count
             /\ hlast'.link_count = count
             /\ hlast'.resized = (hmap.length > LoadThreshold(hmap.bucket_count))
             /\ Len(chain) > 0
             /\ chain[1] = [key |-> hlast'.key, value |-> hlast'.value]]_vars

\* the insertion that tips length over the threshold, served without growth
C4_Witness ==
    /\ hlast.op = "set" /\ hlast.ret /\ hlast.linked /\ ~hlast.resized
    /\ hmap.length > LoadThreshold(hmap.bucket_count)
    /\ hmap.length = 3

(***************************************************************************)
(* C5 as stated: a set on a key that is already present only overwrites    *)
(* that entry's value: get(k) is the new value, length is unchanged, and   *)
(* the order of every chain is the same as before the call.                *)
(***************************************************************************)
C5_Original ==
    [][(Called("set") /\ hlast'.ret /\ Present(hmap, hlast'.key)) =>
          /\ mvn_hmap_get(hmap', hlast'.key) = hlast'.value
          /\ hmap'.length = hmap.length
          /\ ChainKeyOrder(hmap') = ChainKeyOrder(hmap)]_vars

(***************************************************************************)
(* C5 amended: a set on a key that is already present overwrites that      *)
(* entry's value, get(k) is the new value, length is unchanged and every   *)
(* other key keeps its value; the order of every chain is the same as      *)
(* before the call when the call does not grow the table, that is when     *)
(* length on entry is at most floor(0.75 x bucket_count); otherwise the    *)
(* table is doubled and the chains are rebuilt.                            *)
(***************************************************************************)
C5_UpdateInPlace ==
    [][(Called("set") /\ hlast'.ret /\ Present(hmap, hlast'.key)) =>
          /\ mvn_hmap_get(hmap', hlast'.key) = hlast'.value
          /\ hmap'.length = hmap.length
          /\ ~hlast'.linked
          /\ \A k \in ScriptKeys \ {hlast'.key} :
                mvn_hmap_get(hmap', k) = mvn_hmap_get(hmap, k)
          /\ IF hmap.length > LoadThreshold(hmap.bucket_count)
             THEN hmap'.bucket_count = 2 * hmap.bucket_count
             ELSE /\ hmap'.bucket_count = hmap.bucket_count
                  /\ ChainKeyOrder(hmap') = ChainKeyOrder(hmap)]_vars

\* an overwrite of the last entry of a three-entry chain, without growth
C5_Witness ==
    /\ hlast.op = "set" /\ hlast.ret /\ ~hlast.linked /\ ~hlast.resized
    /\ hlast.pos = 3 /\ hlast.chain_len = 3
    /\ hlast.value = 2

(***************************************************************************)
(* C6: whenever mvn_hmap_set returns false the map is exactly as it was    *)
(* before the call: same bucket_count, same length, same entries in the    *)
(* same order in every chain.                                              *)
(***************************************************************************)
C6_FailedSetLeavesMap ==
    [][(Called("set") /\ ~hlast'.ret) => hmap' = hmap]_vars

(***************************************************************************)
(* C7: mvn_hmap_delete(k) returns true exactly when k was present; after   *)
(* true, get(k) is NULL and length is one less; after false the map is     *)
(* unmodified; every other key keeps its value in both cases.              *)
(***************************************************************************)
C7_Delete ==
    [][Called("delete") =>
          /\ hlast'.ret = Present(hmap, hlast'.key)
          /\ hlast'.ret => /\ mvn_hmap_get(hmap', hlast'.key) = NULLVAL
                           /\ hmap'.length = hmap.length - 1
          /\ ~hlast'.ret => hmap' = hmap
          /\ \A k \in ScriptKeys \ {hlast'.key} :
                mvn_hmap_get(hmap', k) = mvn_hmap_get(hmap, k)]_vars

\* the middle entry of a three-entry chain has been deleted
C7_Witness ==
    /\ hlast.op = "delete" /\ hlast.ret
    /\ hlast.pos = 2 /\ hlast.chain_len = 3
    /\ hmap.length = 2


(***************************************************************************)
(* C8.  In every reachable state of a list 0 <= length <= capacity: after  *)
(* any sequence of push, push_batch, pop, unshift, shift, set, resize,     *)
(* reserve, clear, trim and reverse on a list made by init, allocations    *)
(* free to fail, and for every list slice, concat, clone and filter return.*)
(***************************************************************************)
C8_LengthWithinCapacity == WithinCapacity(list) /\ WithinCapacity(lout)

(***************************************************************************)
(* C9.  A successful mvn_list_push(list, x) increases length by exactly 1, *)
(* makes x the element at the new highest index and leaves every earlier   *)
(* element at its index with its value, also when the push grows the       *)
(* buffer.                                                                 *)
(***************************************************************************)
C9_PushAppends ==
    [][(llast'.op = "push" /\ llast'.ret) =>
          /\ mvn_list_length(list') = mvn_list_length(list) + 1
          /\ mvn_list_get(list', mvn_list_length(list') - 1) = llast'.item
          /\ \A i \in 0..(mvn_list_length(list) - 1) :
                mvn_list_get(list', i) = mvn_list_get(list, i)]_vars

\* the fifth push of the test: the list of capacity 4 has grown to 8 and
\* holds 10 at index 0 and 50 at index 4
C9_Witness ==
    /\ lscript = "stack"
    /\ llast.op = "push" /\ llast.ret
    /\ llast.cap = StackInitCap
    /\ list.capacity = StackInitCap * MVN_LIST_GROWTH_FACTOR
    /\ mvn_list_length(list) = 5
    /\ mvn_list_get(list, 0) = 10
    /\ mvn_list_get(list, 4) = 50

(***************************************************************************)
(* C10.  mvn_list_pop undoes the most recent push: in a run of pushes      *)
(* followed by pops, each pop copies out the item of the latest push not   *)
(* yet undone (so the items come out in the reverse of the order they were *)
(* pushed in), and the list is back at the length and the items it had     *)
(* before that push.                                                       *)
(***************************************************************************)
C10_PopUndoesPush ==
    LET k == Len(lrun.pushed)
        j == Len(lrun.popped)
    IN j >= 1 =>
          /\ j <= k
          /\ \A i \in 1..j :
                lrun.popped[i] \in {NULLVAL, lrun.pushed[k + 1 - i]}
          /\ Items(list) = lrun.base \o SubSeq(lrun.pushed, 1, k - j)
          /\ mvn_list_length(list) = Len(lrun.base) + k - j

\* 20 and 30 pushed onto a list holding 10, then popped: 30 first, then 20
C10_Witness ==
    /\ lrun.base = <<10>>
    /\ lrun.pushed = <<20, 30>>
    /\ lrun.popped = <<30, 20>>
    /\ llast.op = "pop" /\ llast.ret /\ llast.out = 20
    /\ Items(list) = <<10>>


(***************************************************************************)
(* C11.  A successful mvn_list_unshift(x) places x at index 0 and moves    *)
(* every existing element up by one index; a successful mvn_list_shift     *)
(* copies out the element at index 0 and moves every remaining element     *)
(* down by one; a shift that directly follows a successful unshift(x)      *)
(* copies out x and leaves the list with the length and the elements it    *)
(* had before the unshift, also when the unshift grew the buffer.          *)
(***************************************************************************)
C11_UnshiftShift ==
    [][/\ (llast'.op = "unshift" /\ llast'.ret) =>
             Items(list') = <<llast'.item>> \o Items(list)
       /\ (llast'.op = "shift" /\ llast'.ret) =>
             /\ Items(list') = Tail(Items(list))
             /\ llast'.n = 1 => llast'.out = mvn_list_get(list, 0)
       /\ (llast'.op = "shift" /\ llast'.ret /\ llast'.undo.on) =>
             /\ Items(list') = llast'.undo.items
             /\ mvn_list_length(list') = Len(llast'.undo.items)
             /\ llast'.n = 1 => llast'.out = llast'.undo.item]_vars

\* an unshift onto a full list of one item grew the buffer, and the shift
\* after it copied the item out and left the one item the list had
C11_Witness ==
    /\ llast.op = "shift" /\ llast.ret /\ llast.n = 1
    /\ llast.undo.on
    /\ llast.undo.cap < llast.cap
    /\ Len(llast.undo.items) = 1
    /\ llast.out = llast.undo.item
    /\ llast.out # llast.undo.items[1]
    /\ Items(list) = llast.undo.items


(***************************************************************************)
(* C12.  mvn_list_get and mvn_list_set check the index against length, not *)
(* capacity: for an index >= length, also one below capacity whose slot    *)
(* still holds a removed element, get returns NULL and set returns false   *)
(* and leaves the list unchanged; for an index < length get returns the    *)
(* element, set(i, x) succeeds, changes element i only, and get(i) then    *)
(* yields x.                                                               *)
(***************************************************************************)
C12_BoundsByLength ==
    [][/\ llast'.op = "get" =>
             /\ list' = list
             /\ llast'.n >= mvn_list_length(list) => llast'.out = NULLVAL
             /\ llast'.n < mvn_list_length(list) =>
                   llast'.out = list.data[llast'.n + 1]
       /\ llast'.op = "set" =>
             /\ llast'.n >= mvn_list_length(list) =>
                   ~llast'.ret /\ list' = list
             /\ (llast'.n < mvn_list_length(list) /\ llast'.item # NULLVAL) =>
                   /\ llast'.ret
                   /\ list' = [list EXCEPT !.data[llast'.n + 1] = llast'.item]
                   /\ mvn_list_get(list', llast'.n) = llast'.item]_vars

\* a get at index == length, below capacity, of a slot that still holds the
\* element a pop, shift or clear removed
C12_Witness ==
    /\ llast.op = "get"
    /\ llast.n = mvn_list_length(list)
    /\ llast.n < list.capacity
    /\ list.data[llast.n + 1] # GARBAGE
    /\ llast.out = NULLVAL


(***************************************************************************)
(* C13.  When the allocation fails in a call that grows or re-sizes the    *)
(* buffer (push, unshift, push_batch, resize, reserve, trim), the call     *)
(* returns false and the list is as it was: same length, same capacity,    *)
(* same elements.                                                          *)
(***************************************************************************)
GrowOps == {"push", "unshift", "push_batch", "resize", "reserve", "trim"}

C13_FailedGrowthLeavesList ==
    [][(llast'.op \in GrowOps /\ llast'.fail) =>
          /\ ~llast'.ret
          /\ list' = list]_vars

\* a push_batch onto a list holding items, with too little room, whose
\* allocation failed
C13_Witness ==
    /\ llast.op = "push_batch" /\ llast.fail /\ ~llast.ret
    /\ mvn_list_length(list) >= 1
    /\ mvn_list_length(list) + llast.n > list.capacity


(***************************************************************************)
(* C14.  mvn_list_slice(L, s, e) of a list L, with e first resolved to     *)
(* len(L) when it is (size_t)-1 or exceeds len(L), returns NULL exactly    *)
(* when s > len(L) or s > e; otherwise it returns a new list of length     *)
(* e - s whose i-th element is L[s + i]; L itself is unchanged.  (The      *)
(* allocations of the new list succeed; when one fails the call returns    *)
(* NULL and L is unchanged.)                                               *)
(***************************************************************************)
SliceEnd(l, end) == IF end = SIZE_MAX \/ end > l.length THEN l.length ELSE end

C14_Slice ==
    [][(llast'.op = "slice" /\ ~IsNullList(list)) =>
          LET s == llast'.n
              e == SliceEnd(list, llast'.m)
          IN /\ list' = list
             /\ llast'.fail => IsNullList(lout')
             /\ ~llast'.fail =>
                   /\ IsNullList(lout') <=> (s > list.length \/ s > e)
                   /\ ~IsNullList(lout') =>
                         /\ lout'.length = e - s
                         /\ \A i \in 0..(e - s - 1) :
                               mvn_list_get(lout', i) = list.data[s + i + 1]]_vars

\* the slice from index 1 to the end, asked for by (size_t)-1, of a list of
\* three items of which the first differs from the second
C14_Witness ==
    /\ llast.op = "slice" /\ llast.ret
    /\ llast.n = 1 /\ llast.m = SIZE_MAX
    /\ mvn_list_length(list) = 3
    /\ mvn_list_get(list, 0) # mvn_list_get(list, 1)
    /\ Items(lout) = <<mvn_list_get(list, 1), mvn_list_get(list, 2)>>


(***************************************************************************)
(* C15.  mvn_list_concat(A, B) of two lists returns NULL when their        *)
(* item_size differs; otherwise it returns a new list of length            *)
(* len(A) + len(B) whose first len(A) elements are A's in order and whose  *)
(* remaining elements are B's in order, also when A or B is empty; A and B *)
(* are unchanged.  (The allocations of the new list succeed; when one      *)
(* fails the call returns NULL.)                                           *)
(***************************************************************************)
C15_Concat ==
    [][(llast'.op = "concat" /\ ~IsNullList(list)
          /\ ~IsNullList(llast'.other)) =>
          LET A == list
              B == llast'.other
          IN /\ list' = list
             /\ A.item_size # B.item_size => IsNullList(lout')
             /\ llast'.fail => IsNullList(lout')
             /\ (A.item_size = B.item_size /\ ~llast'.fail) =>
                   /\ ~IsNullList(lout')
                   /\ lout'.length = A.length + B.length
                   /\ lout'.length <= lout'.capacity
                   /\ \A i \in 0..(A.length - 1) :
                         mvn_list_get(lout', i) = A.data[i + 1]
                   /\ \A i \in 0..(B.length - 1) :
                         mvn_list_get(lout', A.length + i) = B.data[i + 1]]_vars

\* a list of two items followed by a returned list of four
C15_Witness ==
    /\ llast.op = "concat" /\ llast.ret
    /\ mvn_list_length(list) = 2
    /\ llast.other.length = 4
    /\ mvn_list_get(list, 0) # mvn_list_get(list, 1)
    /\ Items(lout) = Items(list) \o Items(llast.other)


C17_ClonePreservesCapacity ==
    (llast.op = "clone" /\ llast.ret) => lout.capacity = list.capacity


(***************************************************************************)
(* C18.  mvn_list_reverse is its own inverse: one call moves the element   *)
(* at index i to index n - 1 - i, for even and odd n, length unchanged,    *)
(* and the second of two consecutive calls leaves the list with the        *)
(* contents it had before the first.                                       *)
(***************************************************************************)
C18_ReverseInvolution ==
    [][(llast'.op = "reverse" /\ llast'.ret) =>
          LET n == mvn_list_length(list)
          IN /\ mvn_list_length(list') = n
             /\ \A i \in 0..(n - 1) :
                   mvn_list_get(list', n - 1 - i) = mvn_list_get(list, i)
             /\ llast'.undo.on => Items(list') = llast'.undo.items]_vars

\* the second reverse of a list of three items whose ends differ
C18_Witness ==
    /\ llast.op = "reverse" /\ llast.ret /\ llast.undo.on
    /\ mvn_list_length(list) = 3
    /\ mvn_list_get(list, 0) # mvn_list_get(list, 2)
    /\ llast.items[1] = mvn_list_get(list, 2)
    /\ Items(list) = llast.undo.items


(***************************************************************************)
(* C19.  For a predicate p that answers the same for an element every     *)
(* time it is asked, mvn_list_filter(L, p) returns a new list holding      *)
(* exactly the elements of L that satisfy p, with multiplicity and in      *)
(* their original relative order, whether none, some or all match, and     *)
(* leaves L unchanged.  (The allocations of the new list succeed; when one *)
(* fails the call returns NULL.)                                           *)
(***************************************************************************)
\* the items at the indices the predicate accepts, in order
RECURSIVE Kept(_, _, _)
Kept(items, pass, i) ==
    IF i > Len(items) THEN <<>>
    ELSE (IF pass[i] THEN <<items[i]>> ELSE <<>>) \o Kept(items, pass, i + 1)

\* the predicate of the last call answered the same in both passes
SamePasses(call) == Len(call.pass) = 2 /\ call.pass[1] = call.pass[2]

C19_FilterKeeps ==
    [][(llast'.op = "filter" /\ ~IsNullList(list) /\ SamePasses(llast')) =>
          /\ list' = list
          /\ llast'.fail => IsNullList(lout')
          /\ ~llast'.fail =>
                /\ ~IsNullList(lout')
                /\ Items(lout') = Kept(Items(list), llast'.pass[1], 1)
                /\ lout'.length <= lout'.capacity]_vars

\* of three items the predicate accepts the first and the last, which differ
C19_Witness ==
    /\ llast.op = "filter" /\ llast.ret /\ SamePasses(llast)
    /\ mvn_list_length(list) = 3
    /\ llast.pass[1] = <<TRUE, FALSE, TRUE>>
    /\ mvn_list_get(list, 0) # mvn_list_get(list, 2)
    /\ Items(lout) = <<mvn_list_get(list, 0), mvn_list_get(list, 2)>>


(***************************************************************************)
(* C20.  A successful mvn_list_push_batch(list, items, count) leaves the   *)
(* list with the same length and elements as count successive pushes of    *)
(* items[0], ..., items[count-1], and it changes capacity at most once:    *)
(* when length + count exceeded the old capacity, to 2 x (length + count), *)
(* or to MVN_LIST_DEFAULT_CAPACITY where 2 x (length + count) is smaller   *)
(* than that; and not at all otherwise.                                    *)
(***************************************************************************)
\* the list after successful pushes of items[i], ..., items[Len(items)]
RECURSIVE Pushes(_, _, _)
Pushes(l, items, i) ==
    IF i > Len(items) THEN l
    ELSE Pushes(mvn_list_push(l, items[i], FALSE).list, items, i + 1)

BatchDone(call) == call.op = "push_batch" /\ call.ret

\* the batch did what the pushes do to the length and the elements
BatchAsPushes ==
    LET pushed == Pushes(list, llast'.batch, 1)
    IN /\ Len(llast'.batch) = llast'.n
       /\ list'.length = pushed.length
       /\ Items(list') = Items(pushed)

BatchGrew == list.length + llast'.n > list.capacity

C20_BatchAsPushes ==
    [][BatchDone(llast') =>
          /\ BatchAsPushes
          /\ list'.capacity =
                IF ~BatchGrew THEN list.capacity
                ELSE IF 2 * (list.length + llast'.n) < MVN_LIST_DEFAULT_CAPACITY
                     THEN MVN_LIST_DEFAULT_CAPACITY
                     ELSE 2 * (list.length + llast'.n)]_vars

\* the claim as first stated: a batch that grows the buffer leaves the
\* capacity at 2 x (length + count)
C20_Original ==
    [][BatchDone(llast') =>
          /\ BatchAsPushes
          /\ list'.capacity = IF BatchGrew THEN 2 * (list.length + llast'.n)
                              ELSE list.capacity]_vars

\* a batch of three on two items in a buffer of two: the capacity becomes 10,
\* the three items follow the two in the order of the array
C20_Witness ==
    /\ BatchDone(llast)
    /\ llast.cap = 2 /\ Len(llast.items) = 2 /\ llast.n = 3
    /\ llast.batch[1] # llast.batch[2]
    /\ list.capacity = 10
    /\ Items(list) = llast.items \o llast.batch


(***************************************************************************)
(* C21.  After every successful mvn_list_resize(list, n), length and all   *)
(* elements are unchanged.  With m = max(n, length): the capacity is       *)
(* unchanged when m equals it, becomes 0 when m is 0, becomes              *)
(* MVN_LIST_DEFAULT_CAPACITY when 0 < m < 8, and becomes m otherwise; it   *)
(* is never below the length.                                              *)
(***************************************************************************)
Max2(a, b) == IF a >= b THEN a ELSE b

ResizeDone(call) == call.op = "resize" /\ call.ret

ResizeKeepsItems ==
    /\ list'.length = list.length
    /\ Items(list') = Items(list)

C21_Resize ==
    [][ResizeDone(llast') =>
          LET m == Max2(llast'.n, list.length)
          IN /\ ResizeKeepsItems
             /\ list'.capacity >= list'.length
             /\ list'.capacity =
                   IF m = list.capacity THEN list.capacity
                   ELSE IF m > 0 /\ m < MVN_LIST_DEFAULT_CAPACITY
                        THEN MVN_LIST_DEFAULT_CAPACITY
                        ELSE m]_vars

\* the claim as first stated: capacity == max(n, length, 8)
C21_Original ==
    [][ResizeDone(llast') =>
          /\ ResizeKeepsItems
          /\ list'.capacity =
                Max2(Max2(llast'.n, list.length), MVN_LIST_DEFAULT_CAPACITY)]_vars

\* a request of 2 on three items in a buffer of 9: the capacity becomes 8 and
\* the three items stay
C21_Witness ==
    /\ ResizeDone(llast)
    /\ llast.n = 2 /\ llast.cap = 9 /\ Len(llast.items) = 3
    /\ list.capacity = 8
    /\ Items(list) = llast.items


(***************************************************************************)
(* C23.  mvn_list_trim trims excess capacity to the exact length: after a  *)
(* successful trim of a non-empty list capacity = length, after a          *)
(* successful trim of an empty list capacity = 8 (the default), and in     *)
(* both cases length and elements are unchanged.                           *)
(***************************************************************************)
C23_TrimExact ==
    [][(llast'.op = "trim" /\ llast'.ret) =>
          /\ list'.length = list.length
          /\ Items(list') = Items(list)
          /\ list'.capacity = IF list.length = 0 THEN MVN_LIST_DEFAULT_CAPACITY
                              ELSE list.length]_vars


(***************************************************************************)
(* C22.  On a map in any reachable state, mvn_hmap_keys returns a new list *)
(* whose length equals the map's length and which contains every live key  *)
(* exactly once, and mvn_hmap_values returns a new list of the same length *)
(* containing the value of every live entry exactly once; for an empty map *)
(* both return empty lists rather than null, and neither call changes the  *)
(* map.  (The allocations of the list succeed; when one fails the call     *)
(* returns NULL.)                                                          *)
(***************************************************************************)
\* the keys mvn_hmap_get finds in the map
LiveKeys(h) == {k \in AllKeys : mvn_hmap_get(h, k) # NULLVAL}

\* how many items of a list satisfy a test
Count(items, Test(_)) == Cardinality({i \in 1..Len(items) : Test(items[i])})

KeysExactlyOnce(h, l) ==
    /\ l.length = h.length
    /\ \A k \in LiveKeys(h) :
          LET IsK(p) == StringAt(p) = k IN Count(Items(l), IsK) = 1
    /\ \A i \in 1..l.length : StringAt(l.data[i]) \in LiveKeys(h)

ValuesExactlyOnce(h, l) ==
    /\ l.length = h.length
    /\ \A i \in 1..l.length :
          LET v == l.data[i]
              IsV(x) == x = v
          IN Count(Items(l), IsV) =
                Cardinality({k \in LiveKeys(h) : mvn_hmap_get(h, k) = v})
    /\ \A k \in LiveKeys(h) :
          \E i \in 1..l.length : l.data[i] = mvn_hmap_get(h, k)

\* a step that is a call of mvn_hmap_keys or mvn_hmap_values
CollectStep == llast.op = "none" /\ llast'.op \in {"keys", "values"}

C22_KeysAndValues ==
    [][(CollectStep /\ ~IsNullMap(hmap)) =>
          /\ hmap' = hmap
          /\ llast'.fail => IsNullList(lout')
          /\ ~llast'.fail =>
                /\ ~IsNullList(lout')
                /\ llast'.op = "keys" => KeysExactlyOnce(hmap, lout')
                /\ llast'.op = "values" => ValuesExactlyOnce(hmap, lout')]_vars

\* the list of the keys of a map whose three keys share one chain
C22_Witness ==
    /\ llast.op = "keys" /\ llast.ret
    /\ hmap.length = 3 /\ lout.length = 3
    /\ \E i \in 1..hmap.bucket_count : Len(hmap.buckets[i]) = 3



(***************************************************************************)
(* C24.  The open-addressing map and the chaining map satisfy the same     *)
(* abstract Map contract: run side by side on the same sequence of set and *)
(* delete operations over the same keys, they report the same number of    *)
(* entries and, for every key, the same get result (absent, or present     *)
(* with the same value).                                                   *)
(***************************************************************************)
C24_SameMapContract ==
    (oscript.kind # "none" /\ olast.end = "returned") =>
        /\ mvn_hmap_len(omap) = mvn_hmap_length(hmap)
        /\ \A key \in OKeys : \A ub \in UbOutcomes :
              LET g == mvn__hm_get(omap, key, ub)
              IN /\ g.end = "returned"
                 /\ g.value = mvn_hmap_get(hmap, key)

(***************************************************************************)
(* C25.  On the open-addressing map, every mvn__hm_set, mvn__hm_get and    *)
(* mvn__hm_del call terminates after any sequence of set and delete        *)
(* operations: the linear probe always reaches either the searched key or  *)
(* a never-used empty slot, however many tombstones earlier deletions have *)
(* left in the table.                                                      *)
(***************************************************************************)
C25_ProbesTerminate == olast.end # "hang"



(***************************************************************************)
(* C26.  In every reachable state of the chaining map,                     *)
(* length <= floor(0.75 x bucket_count) + 1: after any sequence of set and *)
(* delete calls the number of entries exceeds the 0.75 load threshold by   *)
(* at most one, and bucket_count is never 0.                               *)
(***************************************************************************)
C26_LoadBound ==
    ~IsNullMap(hmap) =>
        /\ hmap.bucket_count > 0
        /\ hmap.length <= LoadThreshold(hmap.bucket_count) + 1

\* a set left the map one entry over the threshold of a table it had grown
C26_Witness ==
    /\ hlast.op = "set" /\ hlast.ret /\ hlast.resized
    /\ hmap.length = LoadThreshold(hmap.bucket_count) + 1
    /\ hmap.length >= 2


(***************************************************************************)
(* C27.  In every reachable state of the chaining map, each entry sits in  *)
(* the chain of bucket hash(key) mod bucket_count for the current          *)
(* bucket_count; set, delete and resize all preserve this, so a lookup     *)
(* that scans only that one bucket can never miss a live key.              *)
(***************************************************************************)
\* the keys of the entries of every chain
EntryKeys(h) ==
    UNION {{h.buckets[i][j].key : j \in 1..Len(h.buckets[i])} :
              i \in 1..h.bucket_count}

C27_EntriesInHomeBucket ==
    ~IsNullMap(hmap) =>
        /\ \A i \in 1..hmap.bucket_count : \A j \in 1..Len(hmap.buckets[i]) :
              BucketIndex(hmap.buckets[i][j].key, hmap.bucket_count) = i - 1
        /\ \A key \in EntryKeys(hmap) : mvn_hmap_get(hmap, key) # NULLVAL

\* after a set that grew the table and a delete, two keys that shared a
\* bucket sit in different buckets
C27_Witness ==
    /\ hlast.op = "delete" /\ hlast.ret
    /\ hmap.bucket_count = 4 /\ hmap.length = 2
    /\ \E i, j \in 1..hmap.bucket_count :
          /\ i # j
          /\ Len(hmap.buckets[i]) = 1 /\ Len(hmap.buckets[j]) = 1
          /\ BucketIndex(hmap.buckets[i][1].key, 2) =
                BucketIndex(hmap.buckets[j][1].key, 2)


(***************************************************************************)
(* C28.  mvn_list_filter never writes past the result buffer: the list it  *)
(* returns satisfies length <= capacity for every predicate, including a   *)
(* stateful predicate whose answer for an element differs between the      *)
(* counting pass and the copying pass.                                     *)
(***************************************************************************)
C28_FilterWithinBuffer ==
    [][(llast'.op = "filter" /\ ~IsNullList(lout')) =>
          /\ lout'.length <= lout'.capacity
          /\ Len(lout'.data) = lout'.capacity]_vars

(***************************************************************************)
(* C29.  In the open-addressing map, storing a value for one slot          *)
(* (mvn__hm_set writing through mvn__hm_get_value_ptr) leaves the key      *)
(* pointer, hash and presence flag of every other slot unchanged, so a     *)
(* slot's key is only ever null or a string the map itself allocated.      *)
(***************************************************************************)
\* the table a set call finds: the new table when the pointer was NULL
TableBefore == IF IsNullOmap(omap) THEN NewTable(MVN__HASH_INITIAL_CAPACITY)
               ELSE omap

\* a set call that returned after it wrote an entry of the table it found
StoredInPlace ==
    /\ olast'.op = "set" /\ olast'.end = "returned" /\ olast'.index >= 0
    /\ omap'.capacity = TableBefore.capacity

C29_ValueStoreFrame ==
    [][StoredInPlace =>
          /\ \A i \in 0..(omap'.capacity - 1) :
                i # olast'.index =>
                   omap'.entries[i + 1] = TableBefore.entries[i + 1]
          /\ \A i \in 0..(omap'.capacity - 1) :
                omap'.entries[i + 1].key.kind \in {"null", "str"}]_vars


(***************************************************************************)
(* C30.  For every count >= 1 and min <= max with max - min + 1 >= count,  *)
(* mvn_load_random_sequence(count, min, max) eventually returns, the       *)
(* random source being fair over the values it can yield, and the list it  *)
(* returns holds exactly count pairwise-distinct values, each within       *)
(* [min, max].  (The call is in its loop once the arguments have passed    *)
(* the checks and the list has been created.)                              *)
(***************************************************************************)
SeqDistinct(items) ==
    \A i, j \in 1..Len(items) : i # j => items[i] # items[j]

SequenceLoaded ==
    /\ rseq.pc = "returned"
    /\ ~IsNullList(rseq.list)
    /\ mvn_list_length(rseq.list) = rseq.count
    /\ SeqDistinct(Items(rseq.list))
    /\ \A i \in 1..rseq.count :
          rseq.min <= Items(rseq.list)[i] /\ Items(rseq.list)[i] <= rseq.max

C30_SequenceLoads ==
    (rseq.pc = "loop") ~> SequenceLoaded

=============================================================================
